---- MODULE Spec2Model ----
(***************************************************************************)
(* Model of the server-inventory discovery pipeline (fetch_data.generate   *)
(* in src/app.py) together with the client calls it makes                   *)
(* (src/api_client.py) and the export step                                  *)
(* (src/InventoryTool/utils/excel_generator.py).                            *)
(*                                                                         *)
(* The generator is modelled at the granularity of its yield points: pc is *)
(* the yield at which the generator is suspended, events is the sequence   *)
(* of records it has yielded so far, calls is the sequence of client       *)
(* methods it has invoked.  HTTP responses are inputs drawn from small     *)
(* sets; strings are modelled by the features the code inspects.           *)
(*                                                                         *)
(* The descriptor tool (submit_details of src/Bolt_V1.py and               *)
(* src/Bolt_V2.py) and the two reference parsers of the XLR client         *)
(* (extract_release_id_from_url and the SPK resolution of                  *)
(* extract_spk_from_release) are modelled after the pipeline, each with a  *)
(* specification of its own (BoltSpec, ReleaseIdSpec, SpkSpec) whose       *)
(* initial states draw the inputs and whose actions apply the function;    *)
(* there strings are sequences of characters.                              *)
(***************************************************************************)
EXTENDS Integers, Sequences, FiniteSets, TLC

VARIABLES pc, events, calls, release_train_url, xlr_data, components_with_env,
          release_data, inventories, server_data, component_servers,
          total, completed, ci, ei, escaped

(* State of the descriptor tool (src/Bolt_V1.py, src/Bolt_V2.py) and of    *)
(* the two reference parsers of the XLR client, each run on its own.       *)
VARIABLES form, submitted, descriptor, files,
          url, release_id,
          release, spk_result

(* One call of a client method run on its own (its arguments together with *)
(* what the remote API answers during the call, and the value returned),   *)
(* and the Flask session of one browser with the requests handled on it.   *)
VARIABLES api_call, api_result,
          session, handled

pipelineVars == <<pc, events, calls, release_train_url, xlr_data, components_with_env,
                  release_data, inventories, server_data, component_servers,
                  total, completed, ci, ei, escaped>>

boltVars == <<form, submitted, descriptor, files>>

releaseIdVars == <<url, release_id>>

spkVars == <<release, spk_result>>

clientVars == <<api_call, api_result>>

sessionVars == <<session, handled>>

toolVars == <<boltVars, releaseIdVars, spkVars, clientVars, sessionVars>>

vars == <<pipelineVars, toolVars>>

(* The parts of the state that a run of another program leaves untouched.  *)
BoltIdle == form = <<>> /\ submitted = "idle" /\ descriptor = <<>> /\ files = <<>>

ReleaseIdIdle == url = <<>> /\ release_id = <<>>

SpkIdle == release = <<>> /\ spk_result = <<>>

ClientIdle == api_call = <<>> /\ api_result = <<>>

SessionIdle == session = <<>> /\ handled = <<>>

----------------------------------------------------------------------------
(* Bounds of the model *)

MaxComponents == 2

(* Program constants *)

ProgressEvery == 5

None == "None"

(* Outcome of one HTTP request: a 200 response, a non-200 response, or an  *)
(* exception raised by the request or by decoding its body.                *)
HttpStatus == {"ok", "http_error", "exception"}

SPK == "SPK1"
ORG == "VGPDR---BH"

ComponentName(i) == IF i = 1 THEN "Svc1" ELSE IF i = 2 THEN "Svc2" ELSE "Svc3"

(* Component name lists a release can declare: <<>>, <<svc1>>, <<svc1,svc2>>, ... *)
NameLists == { [i \in 1..n |-> ComponentName(i)] : n \in 0..MaxComponents }

EnvTokens == {"dev", "PROD"}

(* Token lists an integratedReleaseEnvironments value splits into; <<>> is  *)
(* a value made of separators only.                                        *)
EnvVarLists == {<<>>} \cup { <<a>> : a \in EnvTokens }
                     \cup { <<a, b>> : a \in EnvTokens, b \in EnvTokens }

(* Environment keywords found in the sub-task titles of one component.     *)
TaskEnvLists == { <<>>, <<"DEV">>, <<"QA", "PROD">> }

----------------------------------------------------------------------------
(* Helpers on sequences *)

RECURSIVE SumLen(_)
SumLen(s) == IF s = <<>> THEN 0 ELSE Len(Head(s)) + SumLen(Tail(s))

RECURSIVE Flatten(_)
Flatten(s) == IF s = <<>> THEN <<>> ELSE Head(s) \o Flatten(Tail(s))

----------------------------------------------------------------------------
(* XLRClient.get_components_from_release                                   *)
(* A response carries the value of the releaseComponents variable already  *)
(* split on whitespace (<<>> when the variable is absent or blank) and the *)
(* component names the phase/task scan would capture.                      *)

ComponentResponses ==
  [status : HttpStatus,
   releaseComponents : {<<>>, <<SPK>>} \cup { <<SPK>> \o n : n \in NameLists \ {<<>>} },
   phaseComponents : NameLists]

Component(name) == [name |-> name, environments |-> <<>>]

get_components_from_release(resp) ==
  IF resp.status # "ok" THEN <<>>
  ELSE IF Len(resp.releaseComponents) > 1
       THEN [i \in 1..(Len(resp.releaseComponents) - 1) |->
               Component(resp.releaseComponents[i + 1])]
       ELSE [i \in 1..Len(resp.phaseComponents) |->
               Component(resp.phaseComponents[i])]

----------------------------------------------------------------------------
(* XLRClient.get_environments_for_components                               *)
(* The pipeline always passes the release reference (src/app.py:227), so   *)
(* the variable lookup is always attempted.                                *)

DefaultEnvironments == <<"DEV", "TEST", "PROD">>

(* Outcome of the sub-task fetch of one component: a failed fetch, or the  *)
(* environment keywords found in the sub-task titles.                      *)
TaskOutcomes ==
  {[status |-> "http_error", envs |-> <<>>], [status |-> "exception", envs |-> <<>>]}
    \cup { [status |-> "ok", envs |-> e] : e \in TaskEnvLists }

(* Value of the integratedReleaseEnvironments variable: absent (or empty), *)
(* or a non-empty string that splits into the given tokens.                *)
EnvVarValues ==
  {[present |-> FALSE, tokens |-> <<>>]}
    \cup { [present |-> TRUE, tokens |-> t] : t \in EnvVarLists }

EnvironmentResponses(n) ==
  [status : HttpStatus,
   integratedReleaseEnvironments : EnvVarValues,
   tasks : [1..n -> TaskOutcomes]]

TaskEnvironments(outcome) ==
  IF outcome.status # "ok" THEN <<>> ELSE outcome.envs

get_environments_for_components(components, release_url, resp) ==
  IF components = <<>> THEN <<>>
  ELSE IF resp.status = "exception" THEN components
  ELSE IF /\ resp.status = "ok"
          /\ resp.integratedReleaseEnvironments.present
       THEN [i \in 1..Len(components) |->
               [components[i] EXCEPT
                  !.environments = resp.integratedReleaseEnvironments.tokens]]
       ELSE [i \in 1..Len(components) |->
               [components[i] EXCEPT
                  !.environments =
                     IF TaskEnvironments(resp.tasks[i]) = <<>>
                     THEN DefaultEnvironments
                     ELSE TaskEnvironments(resp.tasks[i])]]

----------------------------------------------------------------------------
(* XLRClient.extract_spk_from_release                                      *)
(* The reference is modelled by what the pattern matches find in it: an    *)
(* SPK-shaped token (or none) and an organization-shaped token (or none).  *)

ReleaseUrls == [spk : {None, SPK}, org : {None, ORG}]

SpkResponses ==
  [status : HttpStatus,
   repoOrg : {None, ORG},
   folderOrg : {None, ORG},
   releaseComponents : {<<>>, <<"SPK_PROD">>, <<SPK, "Svc1">>},
   releaseNameSpk : {None, SPK},
   pathOrg : {None, ORG}]

extract_spk_from_release(release_url, resp) ==
  IF resp.status = "exception"
  THEN [spk |-> None, org_name |-> None]
  ELSE LET ok   == resp.status = "ok"
           org1 == IF ok THEN resp.repoOrg ELSE None
           org2 == IF ok /\ org1 = None THEN resp.folderOrg ELSE org1
           spk1 == IF /\ ok
                      /\ Len(resp.releaseComponents) > 0
                      /\ resp.releaseComponents[1] # "SPK_PROD"
                   THEN resp.releaseComponents[1] ELSE None
           spk2 == IF ok /\ spk1 = None THEN resp.releaseNameSpk ELSE spk1
           org3 == IF ok /\ org2 = None THEN resp.pathOrg ELSE org2
           spk3 == IF spk2 = None THEN release_url.spk ELSE spk2
           org4 == IF org3 = None THEN release_url.org ELSE org3
       IN  [spk |-> spk3, org_name |-> org4]

----------------------------------------------------------------------------
(* AnsibleTowerClient.get_inventories_by_spk                               *)
(* An inventory name is modelled by the features the matching inspects:    *)
(* the SPK it contains, whether that SPK is followed by _PROD, whether the *)
(* name is written in lower case, and the organization tag it contains.    *)
(* A group name is the sequence of words it is made of.                    *)

Lower(w) ==
  CASE w = "Svc1" -> "svc1"
    [] w = "Svc2" -> "svc2"
    [] w = "Svc3" -> "svc3"
    [] w = "DEV" -> "dev"
    [] w = "TEST" -> "test"
    [] w = "QA" -> "qa"
    [] w = "PROD" -> "prod"
    [] w = "PRODUCTION" -> "production"
    [] w = "DEVELOPMENT" -> "development"
    [] w = "SPK1" -> "spk1"
    [] w = "SVC1" -> "svc1"
    [] w = "Dev" -> "dev"
    [] w = "Production" -> "production"
    [] OTHER -> w

Upper(w) ==
  CASE w = "dev" -> "DEV"
    [] w = "prod" -> "PROD"
    [] w = "qa" -> "QA"
    [] w = "test" -> "TEST"
    [] OTHER -> w

GroupsA == << [id |-> 1, name |-> <<"SVC1", "dev">>],
              [id |-> 2, name |-> <<"svc2", "Production">>] >>
GroupsB == << [id |-> 3, name |-> <<"svc1", "Dev">>] >>

InventoryA(gs) == [id |-> 10, name |-> [spk |-> SPK, prod |-> TRUE, lower |-> FALSE, org |-> ORG],
                   groups_status |-> gs, groups |-> GroupsA]
InventoryB(gs) == [id |-> 11, name |-> [spk |-> SPK, prod |-> TRUE, lower |-> FALSE, org |-> None],
                   groups_status |-> gs, groups |-> GroupsB]
InventoryC(gs) == [id |-> 12, name |-> [spk |-> SPK, prod |-> FALSE, lower |-> TRUE, org |-> None],
                   groups_status |-> gs, groups |-> <<>>]
InventoryD(gs) == [id |-> 13, name |-> [spk |-> "OTHER", prod |-> TRUE, lower |-> FALSE, org |-> ORG],
                   groups_status |-> gs, groups |-> GroupsB]

InventoryResponses ==
  [status : HttpStatus,
   results : {<<>>}
     \cup { <<InventoryA(a)>> : a \in HttpStatus }
     \cup { <<InventoryA(a), InventoryB(b)>> : a \in HttpStatus, b \in HttpStatus }
     \cup { <<InventoryD(a), InventoryC(b)>> : a \in HttpStatus, b \in HttpStatus }]

ExactMatch(spk, name) == name.spk = spk /\ name.prod /\ ~name.lower
PartialMatch(spk, name) == name.spk = spk

(* One pass over the search results (src/api_client.py:619-648 and         *)
(* 654-683): the inventories that match, pass the organization filter and  *)
(* whose groups could be fetched.                                          *)
RECURSIVE InventoryPass(_, _, _, _)
InventoryPass(results, spk, org_name, exact) ==
  IF results = <<>> THEN <<>>
  ELSE LET inv  == Head(results)
           rest == InventoryPass(Tail(results), spk, org_name, exact)
           hit  == IF exact THEN ExactMatch(spk, inv.name)
                            ELSE PartialMatch(spk, inv.name)
       IN IF ~hit THEN rest
          ELSE IF org_name # None /\ inv.name.org # org_name THEN rest
          ELSE IF inv.groups_status # "ok" THEN rest
          ELSE <<[id |-> inv.id, name |-> inv.name, groups |-> inv.groups]>> \o rest

(* Whether a pass reaches a groups request that raises.                    *)
PassRaises(results, spk, org_name, exact) ==
  \E i \in 1..Len(results) :
     /\ IF exact THEN ExactMatch(spk, results[i].name)
                 ELSE PartialMatch(spk, results[i].name)
     /\ ~(org_name # None /\ results[i].name.org # org_name)
     /\ results[i].groups_status = "exception"

get_inventories_by_spk(spk_data, resp) ==
  IF spk_data.spk = None THEN <<>>
  ELSE IF resp.status # "ok" THEN <<>>
  ELSE IF PassRaises(resp.results, spk_data.spk, spk_data.org_name, TRUE) THEN <<>>
  ELSE LET matching == InventoryPass(resp.results, spk_data.spk, spk_data.org_name, TRUE)
       IN IF matching # <<>> THEN matching
          ELSE IF PassRaises(resp.results, spk_data.spk, spk_data.org_name, FALSE) THEN <<>>
          ELSE InventoryPass(resp.results, spk_data.spk, spk_data.org_name, FALSE)

----------------------------------------------------------------------------
(* AnsibleTowerClient.get_servers_for_component                            *)
(* net is what the network answers during one call: the outcome of the     *)
(* hosts request of a candidate group, the hosts it lists, and the outcome *)
(* of a host-detail request.                                               *)

HostLists == { <<>>, <<"host1">>, <<"host1", "host2">> }

DetailOutcomes == {"ok", "ok_no_os", "http_error", "exception"}

ServerResponses ==
  [hosts_status : HttpStatus, hosts : HostLists, detail : DetailOutcomes]

EnvironmentVariants(environment) ==
  {Upper(environment)}
    \cup (IF Upper(environment) = "PROD" THEN {"PRODUCTION"} ELSE {})
    \cup (IF Upper(environment) = "DEV" THEN {"DEVELOPMENT"} ELSE {})

GroupMatches(group, component_name, environment) ==
  LET words == { Lower(group.name[i]) : i \in 1..Len(group.name) }
  IN  /\ Lower(component_name) \in words
      /\ \E v \in EnvironmentVariants(environment) : Lower(v) \in words

RECURSIVE CandidateGroups(_, _, _)
CandidateGroups(groups, component_name, environment) ==
  IF groups = <<>> THEN <<>>
  ELSE (IF GroupMatches(Head(groups), component_name, environment)
        THEN <<Head(groups)>> ELSE <<>>)
       \o CandidateGroups(Tail(groups), component_name, environment)

OsInfo(detail) ==
  CASE detail = "ok" -> "Linux 8"
    [] detail = "ok_no_os" -> "Unknown"
    [] detail = "http_error" -> "Unknown"
    [] OTHER -> "Unknown (Error)"

ServerRecord(host_name, group, component_name, environment, detail) ==
  [server_name |-> host_name, group_name |-> group.name,
   component_name |-> component_name, environment |-> environment,
   os_info |-> OsInfo(detail), enabled |-> TRUE]

RECURSIVE AddHosts(_, _, _, _, _, _)
AddHosts(servers, hosts, group, component_name, environment, detail) ==
  IF hosts = <<>> THEN servers
  ELSE IF \E i \in 1..Len(servers) : servers[i].server_name = Head(hosts)
       THEN AddHosts(servers, Tail(hosts), group, component_name, environment, detail)
       ELSE AddHosts(Append(servers,
                       ServerRecord(Head(hosts), group, component_name, environment, detail)),
                     Tail(hosts), group, component_name, environment, detail)

RECURSIVE ServersOfGroups(_, _, _, _, _)
ServersOfGroups(servers, groups, component_name, environment, net) ==
  IF groups = <<>> THEN servers
  ELSE ServersOfGroups(
         IF net.hosts_status = "ok"
         THEN AddHosts(servers, net.hosts, Head(groups), component_name,
                       environment, net.detail)
         ELSE servers,
         Tail(groups), component_name, environment, net)

get_servers_for_component(component_name, environment, invs, net) ==
  IF invs = <<>> THEN <<>>
  ELSE LET groups == CandidateGroups(
                       Flatten([i \in 1..Len(invs) |-> invs[i].groups]),
                       component_name, environment)
       IN IF groups # <<>> /\ net.hosts_status = "exception" THEN <<>>
          ELSE ServersOfGroups(<<>>, groups, component_name, environment, net)

----------------------------------------------------------------------------
(* fetch_data.generate: the events it yields                               *)

Message(text, arg) == [text |-> text, arg |-> arg]

Event(step, status, text, arg) ==
  [step |-> step, status |-> status, message |-> Message(text, arg)]

ProgressEventNextStep(done, all) ==
  [step |-> 5, status |-> "in-progress",
   message |-> Message("Processing server data: completed", <<done, all>>),
   progress |-> (done * 100) \div all]

ProgressEvent(done, all) ==
  [step |-> 4, status |-> "in-progress",
   message |-> Message("Processing server data: completed", <<done, all>>),
   progress |-> (done * 100) \div all]

ExportedEvent(filename) ==
  [step |-> 5, status |-> "complete",
   message |-> Message("Excel file generated successfully", None),
   excel_path |-> filename, filename |-> filename]

FinalEvent(filename) ==
  [step |-> 6, status |-> "complete",
   message |-> Message("Data collection and processing complete", None),
   download_ready |-> TRUE, filename |-> filename, download_location |-> filename]

(* The record yielded by the except clause. *)
ExceptionEvent(e) ==
  [status |-> "error", message |-> Message("Error processing data", e)]

Emit(e) == events' = Append(events, e)

Call(name) == calls' = Append(calls, name)

(* The guards of the stages *)

(* A guard that tests for a missing list only; the client returns [], never None. *)
NoComponentsNoneOnly(data) == FALSE

NoComponents(data) == data = <<>>

NoEnvironmentsListOnly(cwe) == cwe = <<>>

NoEnvironments(cwe) ==
  \/ cwe = <<>>
  \/ \A i \in 1..Len(cwe) : Len(cwe[i].environments) = 0

NoSpkEmptyOnly(spk) == spk = ""

NoSpk(spk) == spk = None \/ spk = ""

NoInventoriesNoneOnly(invs) == FALSE

NoInventories(invs) == invs = <<>>

Total(cwe) ==
  Len(cwe) * SumLen([i \in 1..Len(cwe) |-> cwe[i].environments])

ShouldReport(done, all) == done % ProgressEvery = 0 \/ done = all

TotalServers(data) == SumLen([i \in 1..Len(data) |-> data[i].servers])

(* The positions of the generator that lie inside its try block: every     *)
(* position after the first yield.                                         *)
InTryUntilExport(position) == position \notin {"init", "y5_complete"}

InTry(position) == position # "init"

(* What the pipeline does when no server was found at all: the status of   *)
(* the event it yields and where it goes on.                               *)
ZeroServersHardFail == [status |-> "error", next |-> "y_error"]

ZeroServers == [status |-> "warning", next |-> "y4_warning"]

(* An exception raised at a position: caught by the except clause, which   *)
(* yields its event, or propagated out of the generator.                   *)
Raise(position, e) ==
  IF InTry(position)
  THEN Emit(ExceptionEvent(e)) /\ pc' = "y_except" /\ escaped' = escaped
  ELSE events' = events /\ pc' = "done" /\ escaped' = TRUE

----------------------------------------------------------------------------
(* fetch_data.generate: its steps, from one yield to the next              *)

Init ==
  /\ pc = "init"
  /\ events = <<>>
  /\ calls = <<>>
  /\ release_train_url \in ReleaseUrls
  /\ xlr_data = <<>>
  /\ components_with_env = <<>>
  /\ release_data = [spk |-> None, org_name |-> None]
  /\ inventories = <<>>
  /\ server_data = <<>>
  /\ component_servers = <<>>
  /\ total = 0
  /\ completed = 0
  /\ ci = 1
  /\ ei = 1
  /\ escaped = FALSE
  /\ BoltIdle /\ ReleaseIdIdle /\ SpkIdle /\ ClientIdle /\ SessionIdle

Start ==
  /\ pc = "init"
  /\ Emit(Event(1, "in-progress", "Retrieving component data from XLR...", None))
  /\ pc' = "y1_in_progress"
  /\ UNCHANGED toolVars
  /\ UNCHANGED <<calls, release_train_url, xlr_data, components_with_env,
                 release_data, inventories, server_data, component_servers,
                 total, completed, ci, ei, escaped>>

ExtractComponentsStep(afterError) ==
  /\ pc = "y1_in_progress"
  /\ \E resp \in ComponentResponses :
       LET data == get_components_from_release(resp)
       IN /\ xlr_data' = data
          /\ IF NoComponents(data)
             THEN /\ Emit(Event(1, "error",
                           "Failed to retrieve any components from XLR.", None))
                  /\ pc' = afterError
             ELSE /\ Emit(Event(1, "complete", "Retrieved components from XLR",
                           Len(data)))
                  /\ pc' = "y1_complete"
  /\ Call("get_components_from_release")
  /\ UNCHANGED toolVars
  /\ UNCHANGED <<release_train_url, components_with_env, release_data,
                 inventories, server_data, component_servers, total,
                 completed, ci, ei, escaped>>

ExtractComponentsNoReturn == ExtractComponentsStep("y1_complete")

ExtractComponents == ExtractComponentsStep("y_error")

AttachEnvironmentsBegin ==
  /\ pc = "y1_complete"
  /\ Emit(Event(2, "in-progress", "Retrieving environment data for components...", None))
  /\ pc' = "y2_in_progress"
  /\ UNCHANGED toolVars
  /\ UNCHANGED <<calls, release_train_url, xlr_data, components_with_env,
                 release_data, inventories, server_data, component_servers,
                 total, completed, ci, ei, escaped>>

AttachEnvironments ==
  /\ pc = "y2_in_progress"
  /\ \E resp \in EnvironmentResponses(Len(xlr_data)) :
       LET cwe == get_environments_for_components(xlr_data, release_train_url, resp)
       IN /\ components_with_env' = cwe
          /\ IF NoEnvironments(cwe)
             THEN /\ Emit(Event(2, "error",
                           "Failed to retrieve environment data for components.", None))
                  /\ pc' = "y_error"
             ELSE /\ Emit(Event(2, "complete",
                           "Retrieved environment data for components", Len(cwe)))
                  /\ pc' = "y2_complete"
  /\ Call("get_environments_for_components")
  /\ UNCHANGED toolVars
  /\ UNCHANGED <<release_train_url, xlr_data, release_data, inventories,
                 server_data, component_servers, total, completed, ci, ei,
                 escaped>>

ResolveInventoriesBegin ==
  /\ pc = "y2_complete"
  /\ Emit(Event(3, "in-progress", "Retrieving inventory data from Ansible Tower...", None))
  /\ pc' = "y3_in_progress"
  /\ UNCHANGED toolVars
  /\ UNCHANGED <<calls, release_train_url, xlr_data, components_with_env,
                 release_data, inventories, server_data, component_servers,
                 total, completed, ci, ei, escaped>>

ExtractSpkOrg ==
  /\ pc = "y3_in_progress"
  /\ \E resp \in SpkResponses :
       LET data == extract_spk_from_release(release_train_url, resp)
       IN /\ release_data' = data
          /\ IF NoSpk(data.spk)
             THEN /\ Emit(Event(3, "error",
                           "Failed to extract SPK from release train URL.", None))
                  /\ pc' = "y_error"
             ELSE /\ Emit(Event(3, "in-progress", "Extracted SPK from release train URL",
                           <<data.spk, data.org_name>>))
                  /\ pc' = "y3_spk"
  /\ Call("extract_spk_from_release")
  /\ UNCHANGED toolVars
  /\ UNCHANGED <<release_train_url, xlr_data, components_with_env, inventories,
                 server_data, component_servers, total, completed, ci, ei,
                 escaped>>

ResolveInventories ==
  /\ pc = "y3_spk"
  /\ \E resp \in InventoryResponses :
       LET invs == get_inventories_by_spk(release_data, resp)
       IN /\ inventories' = invs
          /\ IF NoInventories(invs)
             THEN /\ Emit(Event(3, "error",
                           "No inventories found in Ansible Tower for SPK",
                           release_data.spk))
                  /\ pc' = "y_error"
             ELSE /\ Emit(Event(3, "complete",
                           "Retrieved inventories from Ansible Tower for SPK",
                           <<Len(invs), release_data.spk>>))
                  /\ pc' = "y3_complete"
  /\ Call("get_inventories_by_spk")
  /\ UNCHANGED toolVars
  /\ UNCHANGED <<release_train_url, xlr_data, components_with_env, release_data,
                 server_data, component_servers, total, completed, ci, ei,
                 escaped>>

ResolveServersBegin ==
  /\ pc = "y3_complete"
  /\ Emit(Event(4, "in-progress",
           "Fetching server data for each component and environment...", None))
  /\ pc' = "y4_in_progress"
  /\ UNCHANGED toolVars
  /\ UNCHANGED <<calls, release_train_url, xlr_data, components_with_env,
                 release_data, inventories, server_data, component_servers,
                 total, completed, ci, ei, escaped>>

(* server_data = [], total and completed are set; the loop is entered      *)
(* unless there is nothing to process.                                     *)
ResolveServersInit ==
  /\ pc = "y4_in_progress"
  /\ server_data' = <<>>
  /\ total' = Total(components_with_env)
  /\ completed' = 0
  /\ ci' = 1
  /\ ei' = 1
  /\ component_servers' = <<>>
  /\ IF Total(components_with_env) = 0
     THEN /\ Emit(Event(4, "error", "No environments found to process.", None))
          /\ pc' = "y_error"
     ELSE /\ events' = events
          /\ pc' = "loop"
  /\ UNCHANGED toolVars
  /\ UNCHANGED <<calls, release_train_url, xlr_data, components_with_env,
                 release_data, inventories, escaped>>

(* One iteration of the inner loop: one (component, environment) pair.     *)
ResolvePair ==
  /\ pc = "loop"
  /\ ci <= Len(components_with_env)
  /\ ei <= Len(components_with_env[ci].environments)
  /\ \E net \in ServerResponses :
       component_servers' = component_servers \o
         get_servers_for_component(components_with_env[ci].name,
                                   components_with_env[ci].environments[ei],
                                   inventories, net)
  /\ Call("get_servers_for_component")
  /\ completed' = completed + 1
  /\ ei' = ei + 1
  /\ IF ShouldReport(completed + 1, total)
     THEN Emit(ProgressEvent(completed + 1, total))
     ELSE events' = events
  /\ UNCHANGED toolVars
  /\ UNCHANGED <<pc, release_train_url, xlr_data, components_with_env,
                 release_data, inventories, server_data, total, ci, escaped>>

(* End of the inner loop: the component's servers are recorded.            *)
NextComponent ==
  /\ pc = "loop"
  /\ ci <= Len(components_with_env)
  /\ ei > Len(components_with_env[ci].environments)
  /\ server_data' = Append(server_data,
                      [component |-> components_with_env[ci].name,
                       servers |-> component_servers])
  /\ component_servers' = <<>>
  /\ ci' = ci + 1
  /\ ei' = 1
  /\ UNCHANGED toolVars
  /\ UNCHANGED <<pc, events, calls, release_train_url, xlr_data,
                 components_with_env, release_data, inventories, total,
                 completed, escaped>>

(* End of the outer loop. *)
ResolveServersEnd ==
  /\ pc = "loop"
  /\ ci > Len(components_with_env)
  /\ IF TotalServers(server_data) = 0
     THEN /\ Emit(Event(4, ZeroServers.status,
                   "No server data found for any components.", None))
          /\ pc' = ZeroServers.next
     ELSE /\ Emit(Event(4, "complete", "Retrieved server data for all components", None))
          /\ pc' = "y4_complete"
  /\ UNCHANGED toolVars
  /\ UNCHANGED <<calls, release_train_url, xlr_data, components_with_env,
                 release_data, inventories, server_data, component_servers,
                 total, completed, ci, ei, escaped>>

ResolveServersComplete ==
  /\ pc = "y4_warning"
  /\ Emit(Event(4, "complete", "Retrieved server data for all components", None))
  /\ pc' = "y4_complete"
  /\ UNCHANGED toolVars
  /\ UNCHANGED <<calls, release_train_url, xlr_data, components_with_env,
                 release_data, inventories, server_data, component_servers,
                 total, completed, ci, ei, escaped>>

ExportTableBegin ==
  /\ pc = "y4_complete"
  /\ Emit(Event(5, "in-progress", "Generating Excel file...", None))
  /\ pc' = "y5_in_progress"
  /\ UNCHANGED toolVars
  /\ UNCHANGED <<calls, release_train_url, xlr_data, components_with_env,
                 release_data, inventories, server_data, component_servers,
                 total, completed, ci, ei, escaped>>

Filename == "server_inventory.xlsx"

(* generate_excel_file re-raises whatever fails while the workbook is      *)
(* built or saved.                                                         *)
ExportTable ==
  /\ pc = "y5_in_progress"
  /\ Call("generate_excel_file")
  /\ \E outcome \in {"ok", "exception"} :
       IF outcome = "ok"
       THEN Emit(ExportedEvent(Filename)) /\ pc' = "y5_complete" /\ escaped' = escaped
       ELSE Raise(pc, "generate_excel_file failed")
  /\ UNCHANGED toolVars
  /\ UNCHANGED <<release_train_url, xlr_data, components_with_env, release_data,
                 inventories, server_data, component_servers, total, completed,
                 ci, ei>>

(* The download location is stored in the session (which raises when no    *)
(* request context is active), then the final event is yielded.            *)
Complete ==
  /\ pc = "y5_complete"
  /\ \E outcome \in {"ok", "exception"} :
       IF outcome = "ok"
       THEN Emit(FinalEvent(Filename)) /\ pc' = "y6_complete" /\ escaped' = escaped
       ELSE Raise(pc, "session store failed")
  /\ UNCHANGED toolVars
  /\ UNCHANGED <<calls, release_train_url, xlr_data, components_with_env,
                 release_data, inventories, server_data, component_servers,
                 total, completed, ci, ei>>

(* The generator is resumed after its last yield: it returns (after an     *)
(* error event), or runs off its end.                                      *)
Finish ==
  /\ pc \in {"y_error", "y_except", "y6_complete"}
  /\ pc' = "done"
  /\ UNCHANGED toolVars
  /\ UNCHANGED <<events, calls, release_train_url, xlr_data, components_with_env,
                 release_data, inventories, server_data, component_servers,
                 total, completed, ci, ei, escaped>>

Next ==
  \/ Start
  \/ ExtractComponents
  \/ AttachEnvironmentsBegin
  \/ AttachEnvironments
  \/ ResolveInventoriesBegin
  \/ ExtractSpkOrg
  \/ ResolveInventories
  \/ ResolveServersBegin
  \/ ResolveServersInit
  \/ ResolvePair
  \/ NextComponent
  \/ ResolveServersEnd
  \/ ResolveServersComplete
  \/ ExportTableBegin
  \/ ExportTable
  \/ Complete
  \/ Finish

Spec == Init /\ [][Next]_vars

----------------------------------------------------------------------------
(* Properties of the pipeline's event sequence                             *)

HasStep(e) == "step" \in DOMAIN e

IsEvent(e, step, status) == HasStep(e) /\ e.step = step /\ e.status = status

Called(name) == \E i \in 1..Len(calls) : calls[i] = name

Last(s) == s[Len(s)]

Stopped == pc \in {"y_error", "y_except", "done"}

(* C1: once an event with status 'error' has been emitted, no further      *)
(* event is emitted in that run: in every reachable state an error event   *)
(* can only be the last event of the sequence emitted so far.              *)
C1_ErrorIsTerminal ==
  \A i \in 1..Len(events) :
     events[i].status = "error" => (i = Len(events) /\ Stopped)

(* A finished run that ended with an error event after several stages.     *)
C1_Witness ==
  /\ pc = "done"
  /\ Len(events) > 2
  /\ Last(events).status = "error"

(* C2: when get_components_from_release returns an empty list, the events  *)
(* of the run are exactly the step-1 in-progress event and a step-1 error  *)
(* event: no step-1 complete event and no event of a later stage.          *)
C2_NoComponentsStops ==
  (Called("get_components_from_release") /\ xlr_data = <<>>)
    => /\ Len(events) = 2
       /\ IsEvent(events[1], 1, "in-progress")
       /\ IsEvent(events[2], 1, "error")
       /\ Stopped

C2_Witness ==
  /\ pc = "done"
  /\ Called("get_components_from_release")
  /\ xlr_data = <<>>

(* C3: when extract_spk_from_release resolves no SPK, the pipeline emits a *)
(* step-3 error event as its last event, never calls                       *)
(* get_inventories_by_spk, and stops.                                      *)
C3_NoSpkStops ==
  (Called("extract_spk_from_release") /\ release_data.spk \in {None, ""})
    => /\ IsEvent(Last(events), 3, "error")
       /\ Last(events).message.text = "Failed to extract SPK from release train URL."
       /\ ~Called("get_inventories_by_spk")
       /\ Stopped

C3_Witness ==
  /\ pc = "done"
  /\ Called("extract_spk_from_release")
  /\ release_data.spk = None

(* C4: when get_inventories_by_spk returns no inventory for a resolved     *)
(* SPK, the last event is a step-3 error event naming the SPK, there is no *)
(* step-3 complete event, and neither get_servers_for_component nor        *)
(* generate_excel_file is ever called.                                     *)
C4_NoInventoriesStops ==
  (Called("get_inventories_by_spk") /\ inventories = <<>>)
    => /\ IsEvent(Last(events), 3, "error")
       /\ Last(events).message.text = "No inventories found in Ansible Tower for SPK"
       /\ Last(events).message.arg = release_data.spk
       /\ release_data.spk # None
       /\ \A i \in 1..Len(events) : ~IsEvent(events[i], 3, "complete")
       /\ ~Called("get_servers_for_component")
       /\ ~Called("generate_excel_file")
       /\ Stopped

C4_Witness ==
  /\ pc = "done"
  /\ Called("get_inventories_by_spk")
  /\ inventories = <<>>
  /\ release_data.spk = SPK

(* C5: after get_environments_for_components, if no component has an       *)
(* environment (or there is no component) the fourth and last event is a   *)
(* step-2 error and the run stops; otherwise the fourth event is step-2    *)
(* complete and the next event is the step-3 in-progress event.            *)
C5_EnvironmentGuard ==
  Called("get_environments_for_components")
    => /\ Len(events) >= 4
       /\ IF \A i \in 1..Len(components_with_env) :
                components_with_env[i].environments = <<>>
          THEN /\ Len(events) = 4
               /\ IsEvent(events[4], 2, "error")
               /\ Stopped
          ELSE /\ IsEvent(events[4], 2, "complete")
               /\ \/ pc = "y2_complete" /\ Len(events) = 4
                  \/ Len(events) >= 5 /\ IsEvent(events[5], 3, "in-progress")

C5_Witness ==
  /\ pc = "done"
  /\ Called("get_environments_for_components")
  /\ Len(components_with_env) > 0
  /\ \A i \in 1..Len(components_with_env) :
        components_with_env[i].environments = <<>>

(* The loop over the (component, environment) pairs has run to its end.    *)
ServersResolved ==
  /\ Len(components_with_env) > 0
  /\ ci > Len(components_with_env)
  /\ pc # "loop"

NoServerFound ==
  \A i \in 1..Len(server_data) : server_data[i].servers = <<>>

(* C6: when no pair yields a server, the pipeline emits a step-4 warning   *)
(* event, then the step-4 complete event, then runs the export stage; no   *)
(* error event with a step number is emitted, and a run in which no call   *)
(* raises ends with the final step-6 complete event.                       *)
C6_ZeroServersIsWarning ==
  (ServersResolved /\ NoServerFound)
    => \E k \in 1..Len(events) :
         /\ IsEvent(events[k], 4, "warning")
         /\ \A i \in 1..Len(events) : events[i].status = "warning" => i = k
         /\ pc = "y4_warning" <=> Len(events) = k
         /\ Len(events) > k => IsEvent(events[k + 1], 4, "complete")
         /\ Len(events) > k + 1 => IsEvent(events[k + 2], 5, "in-progress")
         /\ Called("generate_excel_file") <=> Len(events) > k + 2
         /\ \A i \in 1..Len(events) : events[i].status = "error" => ~HasStep(events[i])
         /\ (pc = "done" /\ Last(events).status # "error")
              => /\ IsEvent(Last(events), 6, "complete")
                 /\ Last(events).download_ready

C6_Witness ==
  /\ pc = "done"
  /\ ServersResolved
  /\ NoServerFound
  /\ IsEvent(Last(events), 6, "complete")

IsProgress(e) == IsEvent(e, 4, "in-progress") /\ "progress" \in DOMAIN e

Pairs == SumLen([i \in 1..Len(components_with_env) |->
                    components_with_env[i].environments])

(* C7: once all pairs are resolved, a step-4 progress event has been       *)
(* emitted for every 5th completed pair and for the final pair, and the    *)
(* event of the final pair reports completed = total and progress 100.     *)
C7_ProgressOnFifthAndFinal ==
  ServersResolved
    => \A m \in 1..Pairs :
         (m % ProgressEvery = 0 \/ m = Pairs)
           => \E i \in 1..Len(events) :
                /\ IsProgress(events[i])
                /\ events[i].message.arg[1] = m
                /\ m = Pairs => /\ events[i].message.arg[2] = m
                                /\ events[i].progress = 100

(* C8: step numbers never decrease; within a stage every in-progress event *)
(* precedes every complete or error event; every complete or error event   *)
(* of the stages 1 to 5 follows an in-progress event of its stage; every    *)
(* event of stage n+1 follows a complete event of stage n; the event that   *)
(* carries download_ready follows the export stage's complete event.        *)
C8_ForwardOrder ==
  /\ \A i, j \in 1..Len(events) :
       (i < j /\ HasStep(events[i]) /\ HasStep(events[j]))
         => events[i].step <= events[j].step
  /\ \A i, j \in 1..Len(events) :
       (/\ HasStep(events[i]) /\ HasStep(events[j])
        /\ events[i].step = events[j].step
        /\ events[i].status = "in-progress"
        /\ events[j].status \in {"complete", "error"})
         => i < j
  /\ \A j \in 1..Len(events) :
       (/\ HasStep(events[j])
        /\ events[j].step <= 5
        /\ events[j].status \in {"complete", "error"})
         => \E i \in 1..(j - 1) : IsEvent(events[i], events[j].step, "in-progress")
  /\ \A j \in 1..Len(events) :
       (HasStep(events[j]) /\ events[j].step >= 2)
         => \E i \in 1..(j - 1) : IsEvent(events[i], events[j].step - 1, "complete")
  /\ \A j \in 1..Len(events) :
       "download_ready" \in DOMAIN events[j]
         => \E i \in 1..(j - 1) : IsEvent(events[i], 5, "complete")

(* A finished run that went through every stage and reported progress.     *)
C8_Witness ==
  /\ pc = "done"
  /\ IsEvent(Last(events), 6, "complete")
  /\ \E i \in 1..Len(events) : IsProgress(events[i])

(* C9: every emitted event carries a step number, a status among           *)
(* in-progress, complete, error, warning, and a message.                   *)
C9_EveryEventStructured ==
  \A i \in 1..Len(events) :
     /\ HasStep(events[i])
     /\ events[i].step \in 1..6
     /\ events[i].status \in {"in-progress", "complete", "error", "warning"}
     /\ "message" \in DOMAIN events[i]

ErrorEvents == { i \in 1..Len(events) : events[i].status = "error" }

(* The state in which a run has ended. *)
TerminalOutcome ==
  /\ ~escaped
  /\ pc # "done" => ENABLED Next
  /\ pc = "done" =>
       /\ events # <<>>
       /\ "message" \in DOMAIN Last(events)
       /\ \/ IsEvent(Last(events), 6, "complete") /\ ErrorEvents = {}
          \/ Last(events).status = "error" /\ ErrorEvents = {Len(events)}

PcRank(p) ==
  CASE p = "init" -> 17
    [] p = "y1_in_progress" -> 16
    [] p = "y1_complete" -> 15
    [] p = "y2_in_progress" -> 14
    [] p = "y2_complete" -> 13
    [] p = "y3_in_progress" -> 12
    [] p = "y3_spk" -> 11
    [] p = "y3_complete" -> 10
    [] p = "y4_in_progress" -> 9
    [] p = "loop" -> 8
    [] p = "y4_warning" -> 7
    [] p = "y4_complete" -> 6
    [] p = "y5_in_progress" -> 5
    [] p = "y5_complete" -> 4
    [] p = "y6_complete" -> 3
    [] p = "y_error" -> 1
    [] p = "y_except" -> 1
    [] OTHER -> 0

(* What is left of the loop: the pairs and the components still to do.     *)
LoopRank ==
  IF pc = "loop"
  THEN (Pairs - completed) + (Len(components_with_env) + 1 - ci)
  ELSE 0

(* C10: every run ends in a terminal state with a message: no exception    *)
(* escapes the generator, a run that has not ended can take a step, every  *)
(* step decreases a well-founded measure (so the event sequence is finite) *)
(* and a run that has ended ends with the final step-6 complete event and  *)
(* no error event, or with exactly one error event, its last.              *)
C10_TerminalState ==
  /\ [](TerminalOutcome /\ LoopRank >= 0)
  /\ [][\/ PcRank(pc') < PcRank(pc)
        \/ PcRank(pc') = PcRank(pc) /\ LoopRank' < LoopRank]_vars

(* A run ended by the except clause. *)
C10_Witness ==
  /\ pc = "done"
  /\ Last(events).status = "error"
  /\ ~HasStep(Last(events))

----------------------------------------------------------------------------
(* Strings of the descriptor tool and of the reference parsers are         *)
(* sequences of one-character strings, so that strip, lower, split and the *)
(* regular expressions of the code are computed character by character.    *)

UpperLetters == <<"A", "B", "C", "D", "E", "F", "G", "H", "I", "J", "K", "L", "M",
                  "N", "O", "P", "Q", "R", "S", "T", "U", "V", "W", "X", "Y", "Z">>

LowerLetters == <<"a", "b", "c", "d", "e", "f", "g", "h", "i", "j", "k", "l", "m",
                  "n", "o", "p", "q", "r", "s", "t", "u", "v", "w", "x", "y", "z">>

Digits == {"0", "1", "2", "3", "4", "5", "6", "7", "8", "9"}

Whitespace == {" ", "\t"}

IsUpperLetter(c) == \E i \in 1..Len(UpperLetters) : UpperLetters[i] = c

IsLowerLetter(c) == \E i \in 1..Len(LowerLetters) : LowerLetters[i] = c

IsAlnum(c) == IsUpperLetter(c) \/ IsLowerLetter(c) \/ c \in Digits

(* str.lower and str.upper *)
lower(s) ==
  [i \in 1..Len(s) |->
     IF IsUpperLetter(s[i])
     THEN LowerLetters[CHOOSE k \in 1..Len(UpperLetters) : UpperLetters[k] = s[i]]
     ELSE s[i]]

upper(s) ==
  [i \in 1..Len(s) |->
     IF IsLowerLetter(s[i])
     THEN UpperLetters[CHOOSE k \in 1..Len(LowerLetters) : LowerLetters[k] = s[i]]
     ELSE s[i]]

(* str.isupper: at least one cased character and no lower-case one *)
isupper(s) ==
  /\ \E i \in 1..Len(s) : IsUpperLetter(s[i])
  /\ \A i \in 1..Len(s) : ~IsLowerLetter(s[i])

(* str.strip *)
RECURSIVE lstrip(_)
lstrip(s) == IF s # <<>> /\ Head(s) \in Whitespace THEN lstrip(Tail(s)) ELSE s

RECURSIVE rstrip(_)
rstrip(s) ==
  IF s # <<>> /\ s[Len(s)] \in Whitespace
  THEN rstrip(SubSeq(s, 1, Len(s) - 1))
  ELSE s

strip(s) == rstrip(lstrip(s))

(* str.split(sep) for a one-character separator, and re.split on a         *)
(* character class: seps is the set of separating characters.  Empty       *)
(* pieces are kept.                                                        *)
RECURSIVE split(_, _)
split(s, seps) ==
  IF \A i \in 1..Len(s) : s[i] \notin seps
  THEN <<s>>
  ELSE LET k == CHOOSE i \in 1..Len(s) :
                  s[i] \in seps /\ \A j \in 1..(i - 1) : s[j] \notin seps
       IN <<SubSeq(s, 1, k - 1)>> \o split(SubSeq(s, k + 1, Len(s)), seps)

(* s[i:] starts with prefix p *)
StartsAt(s, i, p) ==
  /\ i + Len(p) - 1 <= Len(s)
  /\ \A k \in 1..Len(p) : s[i + k - 1] = p[k]

startswith(s, p) == StartsAt(s, 1, p)

(* p in s *)
Contains(s, p) == \E i \in 1..(Len(s) + 1) : StartsAt(s, i, p)

(* s[-n:] *)
Suffix(s, n) == SubSeq(s, IF Len(s) > n THEN Len(s) - n + 1 ELSE 1, Len(s))

----------------------------------------------------------------------------
(* The descriptor tool: submit_details, determine_phase_type,              *)
(* get_month_abbreviation and create_json_file of src/Bolt_V1.py and       *)
(* src/Bolt_V2.py.  The form holds what collect_data passes: the entries   *)
(* of the dialog, with the component and environment entries split on ",". *)

MaxItems == 2

AIT == <<"1", "2", "3", "4", "5">>
SPKName == <<"C", "O", "D", "E", "C", "T", "S">>
OPSnumber == <<"9", "9">>
traintype == <<"D", "B">>
directory == <<"/", "o", "u", "t">>

Platforms == {"Datical", "Non-Datical"}

ReleaseDates ==
  { <<"2", "0", "2", "5", ".", "0", "3", ".", "1", "5">>, <<"2", "0", "2", "4", ".", "0", "6", ".", "3", "0">>, <<"2", "0", "2", "3", ".", "0", "9", ".", "0", "1">>, <<"1", "9", "9", "9", ".", "1", "2", ".", "3", "1">>,
    <<"2", "0", "2", "5", ".", "1", "3", ".", "0", "1">>, <<"2", "0", "2", "5", ".">>, <<"2", "0", "2", "5">>, <<>> }

CoreComponents == { <<"s", "v", "c", "A">>, <<"s", "v", "c", "B">>, <<>> }

OtherComponents == { <<" ", "S", "v", "c", "C", " ">>, <<"S", "V", "C", "-", "D", "\t">> }

CoreEnvNames == { <<"D", "E", "V">>, <<"P", "R", "O", "D", "A">>, <<" ", "Q", "A", " ">> }

(* Every key of the phase table, letter-casings of keys, tokens that       *)
(* extend or shorten a key, padded keys, and the empty token.              *)
OtherEnvNames ==
  { <<"D", "I", "F">>, <<"S", "E">>, <<"P", "L", "1">>, <<"P", "L", "2">>, <<"Q", "A">>, <<"S", "A", "P", "E">>, <<"U", "A", "T">>,
    <<"P", "O", "D", "A">>, <<"P", "O", "D", "B">>, <<"P", "O", "D", "C">>, <<"P", "O", "D", "D">>, <<"P", "O", "D", "E">>, <<"P", "O", "D", "F">>,
    <<"D", "A", "R", "K", "P", "R", "O", "D">>, <<"D", "A", "R", "K", "P", "O", "D">>, <<"D", "P">>, <<"D", "P", "R", "O", "D">>, <<"P", "R", "O", "D">>, <<"P", "O", "D">>,
    <<"P", "R", "O", "D", "U", "C", "T", "I", "O", "N">>, <<"P", "r", "o", "d">>, <<"P", "r", "o", "d", "u", "c", "t", "i", "o", "n">>,
    <<"d", "e", "v">>, <<"D", "e", "v">>, <<"u", "a", "t">>, <<"U", "a", "t">>, <<"p", "r", "o", "d">>, <<"p", "R", "o", "D">>,
    <<"D", "E">>, <<"D", "E", "V", "X">>, <<"P", "O", "D", "G">>, <<"D", " ", "E", "V">>,
    <<" ", "U", "A", "T">>, <<"P", "R", "O", "D", "\t">>, <<>>, <<" ", " ">> }

RECURSIVE ListsUpTo(_, _)
ListsUpTo(S, n) ==
  IF n = 0 THEN {<<>>}
  ELSE LET shorter == ListsUpTo(S, n - 1)
       IN shorter \cup { Append(l, x) : l \in shorter, x \in S }

ComponentLists ==
  (ListsUpTo(CoreComponents, MaxItems) \ {<<>>}) \cup { <<c>> : c \in OtherComponents }

EnvNameLists ==
  (ListsUpTo(CoreEnvNames, MaxItems) \ {<<>>}) \cup { <<e>> : e \in OtherEnvNames }

Forms ==
  [releasedate : ReleaseDates, components : ComponentLists,
   env_names : EnvNameLists, platform : Platforms]

month_mappings ==
  (<<"0", "1">> :> <<"J", "A", "N">>) @@ (<<"0", "2">> :> <<"F", "E", "B">>) @@ (<<"0", "3">> :> <<"M", "A", "R">>) @@
  (<<"0", "4">> :> <<"A", "P", "R">>) @@ (<<"0", "5">> :> <<"M", "A", "Y">>) @@ (<<"0", "6">> :> <<"J", "U", "N", "E">>) @@
  (<<"0", "7">> :> <<"J", "U", "L", "Y">>) @@ (<<"0", "8">> :> <<"A", "U", "G">>) @@ (<<"0", "9">> :> <<"S", "E", "P", "T">>) @@
  (<<"1", "0">> :> <<"O", "C", "T">>) @@ (<<"1", "1">> :> <<"N", "O", "V">>) @@ (<<"1", "2">> :> <<"D", "E", "C">>)

get_month_abbreviation_echo(month_num) ==
  IF month_num \in DOMAIN month_mappings THEN month_mappings[month_num] ELSE month_num

get_month_abbreviation(month_num) ==
  IF month_num \in DOMAIN month_mappings THEN month_mappings[month_num] ELSE <<>>

mapping_NonDatical ==
  (<<"D", "E", "V">> :> "DEV") @@ (<<"D", "I", "F">> :> "DEV") @@
  (<<"S", "E">> :> "LLE") @@ (<<"P", "L", "1">> :> "LLE") @@ (<<"P", "L", "2">> :> "LLE") @@
  (<<"Q", "A">> :> "LLE") @@ (<<"S", "A", "P", "E">> :> "LLE") @@ (<<"U", "A", "T">> :> "LLE") @@
  (<<"P", "O", "D", "A">> :> "PROD") @@ (<<"P", "O", "D", "B">> :> "PROD") @@ (<<"P", "O", "D", "C">> :> "PROD") @@
  (<<"P", "O", "D", "D">> :> "PROD") @@ (<<"P", "O", "D", "E">> :> "PROD") @@ (<<"P", "O", "D", "F">> :> "PROD") @@
  (<<"D", "A", "R", "K", "P", "R", "O", "D">> :> "PROD") @@ (<<"D", "A", "R", "K", "P", "O", "D">> :> "PROD") @@ (<<"D", "P">> :> "PROD") @@
  (<<"D", "P", "R", "O", "D">> :> "PROD") @@ (<<"P", "R", "O", "D">> :> "PROD") @@ (<<"P", "O", "D">> :> "PROD") @@
  (<<"P", "R", "O", "D", "U", "C", "T", "I", "O", "N">> :> "PROD") @@ (<<"P", "r", "o", "d">> :> "PROD") @@ (<<"P", "r", "o", "d", "u", "c", "t", "i", "o", "n">> :> "PROD")

determine_phase_type_untrimmed(env_name) ==
  IF env_name \in DOMAIN mapping_NonDatical
  THEN mapping_NonDatical[env_name]
  ELSE "Unknown"

determine_phase_type(env_name) ==
  IF strip(env_name) \in DOMAIN mapping_NonDatical
  THEN mapping_NonDatical[strip(env_name)]
  ELSE "Unknown"

(* releasedate.split(".")[1] raises IndexError when the date has no "."    *)
MonthPartDefaulted(releasedate) == FALSE

MonthPartMissing(releasedate) == Len(split(releasedate, {"."})) < 2

release_date_month(releasedate) ==
  LET parts == split(releasedate, {"."})
  IN IF Len(parts) < 2 THEN <<>> ELSE parts[2]

release_date_year_whole(releasedate) == split(releasedate, {"."})[1]

release_date_year(releasedate) == Suffix(split(releasedate, {"."})[1], 2)

release_components_nonempty(components, releasedate, platform) ==
  LET kept == SelectSeq(components, LAMBDA c : strip(c) # <<>>)
  IN [i \in 1..Len(kept) |->
        Flatten(<<SPKName, <<" ">>, lower(strip(kept[i])), <<" ">>,
                  IF platform = "Datical" THEN releasedate \o <<":", "1">>
                  ELSE <<"$", "{", "r", "e", "l", "e", "a", "s", "e", "B", "r", "a", "n", "c", "h", "}", ":", "1">>>>)]

release_components(components, releasedate, platform) ==
  [i \in 1..Len(components) |->
     IF platform = "Datical"
     THEN Flatten(<<SPKName, <<" ">>, lower(strip(components[i])), <<" ">>, releasedate, <<":", "1">>>>)
     ELSE Flatten(<<SPKName, <<" ">>, lower(strip(components[i])), <<" ">>, <<"$", "{", "r", "e", "l", "e", "a", "s", "e", "B", "r", "a", "n", "c", "h", "}", ":", "1">>>>)]

environmentNameBare(env, month_abbreviation, year, platform) == strip(env)

environmentName(env, month_abbreviation, year, platform) ==
  IF platform = "Datical"
  THEN Flatten(<<strip(env), <<"F", "O", "R">>, month_abbreviation, year>>)
  ELSE strip(env)

integratedReleaseEnvironmentUntrimmed(env, month_abbreviation, year, platform) ==
  IF platform = "Datical"
  THEN Flatten(<<env, <<"F", "O", "R">>, month_abbreviation, year>>)
  ELSE env

integratedReleaseEnvironment(env, month_abbreviation, year, platform) ==
  IF platform = "Datical"
  THEN Flatten(<<strip(env), <<"F", "O", "R">>, month_abbreviation, year>>)
  ELSE strip(env)

(* The dictionary submit_details builds; only called when the month part   *)
(* is present.                                                             *)
Data(f) ==
  LET month_abbreviation == get_month_abbreviation(release_date_month(f.releasedate))
      year == release_date_year(f.releasedate)
  IN [component |->
        [integratedReleaseEnvironments |->
           [i \in 1..Len(f.env_names) |->
              integratedReleaseEnvironment(f.env_names[i], month_abbreviation,
                                           year, f.platform)],
         releaseComponents |->
           release_components(f.components, f.releasedate, f.platform),
         disableReleaseTrainPreDeployGates |-> FALSE,
         disableAllComponentReleaseGates |-> FALSE],
      environments |->
        [i \in 1..Len(f.env_names) |->
           [environmentName |->
              environmentName(f.env_names[i], month_abbreviation, year, f.platform),
            phaseType |-> determine_phase_type(f.env_names[i])]]]

create_json_file(data, f) ==
  [path |-> Flatten(<<directory, <<"/">>, AIT, <<"_">>, SPKName, <<"_", "O", "P", "S", "E", "R", "V", "I", "C", "E", "S", "_">>, OPSnumber,
                      IF f.platform = "Datical" THEN <<"_", "D", "B", "_">> ELSE <<"_">>,
                      traintype, <<"_", "R", "e", "l", "e", "a", "s", "e", "_", "T", "r", "a", "i", "n", "_">>, f.releasedate, <<".", "j", "s", "o", "n">>>>),
   content |-> data]

(* submit_details, which writes the file `writes` times: once in           *)
(* src/Bolt_V1.py, twice in src/Bolt_V2.py.                                *)
submit_details(writes) ==
  /\ submitted = "form"
  /\ IF MonthPartMissing(form.releasedate)
     THEN /\ submitted' = "IndexError"
          /\ UNCHANGED <<descriptor, files>>
     ELSE LET data == Data(form)
          IN /\ submitted' = "success"
             /\ descriptor' = <<data>>
             /\ files' = files \o [i \in 1..writes |-> create_json_file(data, form)]
  /\ UNCHANGED <<form, pipelineVars, releaseIdVars, spkVars, clientVars, sessionVars>>

SubmitDetailsV1 == submit_details(1)

SubmitDetailsV2 == submit_details(2)

PipelineIdle ==
  /\ pc = "idle"
  /\ events = <<>>
  /\ calls = <<>>
  /\ release_train_url = [spk |-> None, org |-> None]
  /\ xlr_data = <<>>
  /\ components_with_env = <<>>
  /\ release_data = [spk |-> None, org_name |-> None]
  /\ inventories = <<>>
  /\ server_data = <<>>
  /\ component_servers = <<>>
  /\ total = 0
  /\ completed = 0
  /\ ci = 1
  /\ ei = 1
  /\ escaped = FALSE

BoltInit ==
  /\ form \in Forms
  /\ submitted = "form"
  /\ descriptor = <<>>
  /\ files = <<>>
  /\ PipelineIdle /\ ReleaseIdIdle /\ SpkIdle /\ ClientIdle /\ SessionIdle

BoltNext ==
  \/ SubmitDetailsV1
  \/ SubmitDetailsV2

BoltSpec == BoltInit /\ [][BoltNext]_vars

----------------------------------------------------------------------------
(* Properties of the descriptor tool                                       *)

Built == submitted = "success"

TheData == descriptor[1]

Names == [i \in 1..Len(TheData.environments) |-> TheData.environments[i].environmentName]

Phases == [i \in 1..Len(TheData.environments) |-> TheData.environments[i].phaseType]

(* C11: for every list of environment tokens, both platform flags and      *)
(* every release date that has a month part, the descriptor's environments *)
(* list has the length and the order of the input tokens, and              *)
(* integratedReleaseEnvironments[i] equals environments[i].environmentName *)
(* for every i.                                                            *)
C11_SameEnvironments ==
  Built =>
    /\ Len(TheData.environments) = Len(form.env_names)
    /\ Len(TheData.component.integratedReleaseEnvironments) = Len(form.env_names)
    /\ \A i \in 1..Len(form.env_names) :
         /\ TheData.component.integratedReleaseEnvironments[i] = Names[i]
         /\ startswith(Names[i], strip(form.env_names[i]))
         /\ Phases[i] = determine_phase_type(form.env_names[i])

C11_Witness ==
  /\ Built
  /\ form.platform = "Datical"
  /\ form.env_names = << <<" ", "Q", "A", " ">>, <<"D", "E", "V">> >>

ListedDev == { <<"D", "E", "V">>, <<"D", "I", "F">> }

ListedLle == { <<"S", "E">>, <<"P", "L", "1">>, <<"P", "L", "2">>, <<"Q", "A">>, <<"S", "A", "P", "E">>, <<"U", "A", "T">> }

ListedProd ==
  { <<"P", "O", "D", "A">>, <<"P", "O", "D", "B">>, <<"P", "O", "D", "C">>, <<"P", "O", "D", "D">>, <<"P", "O", "D", "E">>, <<"P", "O", "D", "F">>,
    <<"D", "A", "R", "K", "P", "R", "O", "D">>, <<"D", "P">>, <<"P", "R", "O", "D">>, <<"P", "O", "D">>, <<"P", "R", "O", "D", "U", "C", "T", "I", "O", "N">> }

ListedPhase(key) ==
  IF key \in ListedDev THEN "DEV"
  ELSE IF key \in ListedLle THEN "LLE"
  ELSE IF key \in ListedProd THEN "PROD"
  ELSE "Unknown"

Listed == ListedDev \cup ListedLle \cup ListedProd

(* C12: determine_phase_type is total: a token whose trimmed form is one   *)
(* of the listed short-codes gets that code's phase, a token whose trimmed *)
(* form is not a key of the table gets the unknown phase (no partial       *)
(* match), and classifying never makes submit_details fail.                *)
C12_ClassifyTotal ==
  /\ (submitted # "form" /\ ~MonthPartMissing(form.releasedate)) => Built
  /\ Built =>
       \A i \in 1..Len(form.env_names) :
         LET key == strip(form.env_names[i])
         IN /\ Phases[i] \in {"DEV", "LLE", "PROD", "Unknown"}
            /\ key \in Listed => Phases[i] = ListedPhase(key)
            /\ key \notin DOMAIN mapping_NonDatical => Phases[i] = "Unknown"

C12_Witness ==
  /\ Built
  /\ form.env_names = << <<" ", "Q", "A", " ">>, <<"P", "R", "O", "D", "A">> >>
  /\ Phases = << "LLE", "Unknown" >>

(* C13: every letter-casing of a listed short-code is classified to the    *)
(* phase of the short-code.                                                *)
C13_CaseInsensitive ==
  Built =>
    \A i \in 1..Len(form.env_names) :
      LET key == upper(strip(form.env_names[i]))
      IN key \in Listed => Phases[i] = ListedPhase(key)

ScenarioA ==
  [releasedate |-> <<"2", "0", "2", "5", ".", "0", "3", ".", "1", "5">>,
   components |-> << <<"s", "v", "c", "A">>, <<"s", "v", "c", "B">> >>,
   env_names |-> << <<"D", "E", "V">>, <<"P", "R", "O", "D", "A">> >>,
   platform |-> "Datical"]

(* C14: Scenario A: spk CODECTS, release date 2025.03.15, components svcA  *)
(* and svcB, tokens DEV and PRODA, Datical flag give the release           *)
(* components 'CODECTS svca 2025.03.15:1' and 'CODECTS svcb 2025.03.15:1'  *)
(* and the environments (DEVFORMAR25, DEV), (PRODAFORMAR25, unknown).      *)
C14_ScenarioA ==
  (Built /\ form = ScenarioA) =>
    /\ TheData.component.releaseComponents =
         << <<"C", "O", "D", "E", "C", "T", "S", " ", "s", "v", "c", "a", " ", "2", "0", "2", "5", ".", "0", "3", ".", "1", "5", ":", "1">>, <<"C", "O", "D", "E", "C", "T", "S", " ", "s", "v", "c", "b", " ", "2", "0", "2", "5", ".", "0", "3", ".", "1", "5", ":", "1">> >>
    /\ TheData.environments =
         << [environmentName |-> <<"D", "E", "V", "F", "O", "R", "M", "A", "R", "2", "5">>, phaseType |-> "DEV"],
            [environmentName |-> <<"P", "R", "O", "D", "A", "F", "O", "R", "M", "A", "R", "2", "5">>, phaseType |-> "Unknown"] >>

C14_Witness == Built /\ form = ScenarioA /\ Len(files) = 1

(* The suffix FOR<MONTH><YY> of a release date: MONTH from the 12-entry    *)
(* table (empty for a month outside it), YY the last two characters of the *)
(* year part.                                                              *)
DateSuffix ==
  LET parts == split(form.releasedate, {"."})
  IN Flatten(<< <<"F", "O", "R">>,
                IF parts[2] \in DOMAIN month_mappings THEN month_mappings[parts[2]] ELSE <<>>,
                Suffix(parts[1], 2) >>)

(* C15 as stated: under Datical every display name is the token followed   *)
(* by FOR<MONTH><YY>; under the other flag every display name equals the   *)
(* input token exactly.                                                    *)
C15_NamesFromTokens ==
  Built =>
    \A i \in 1..Len(form.env_names) :
      Names[i] = IF form.platform = "Datical"
                 THEN form.env_names[i] \o DateSuffix
                 ELSE form.env_names[i]

(* C15, amended: under Datical every display name is the whitespace-       *)
(* trimmed token followed by FOR<MONTH><YY>; under the other flag every    *)
(* display name is the whitespace-trimmed token, without a suffix.         *)
C15_NamesFromTrimmedTokens ==
  Built =>
    \A i \in 1..Len(form.env_names) :
      Names[i] = IF form.platform = "Datical"
                 THEN strip(form.env_names[i]) \o DateSuffix
                 ELSE strip(form.env_names[i])

C15_Witness ==
  /\ Built
  /\ form.platform = "Non-Datical"
  /\ form.releasedate = <<"2", "0", "2", "4", ".", "0", "6", ".", "3", "0">>
  /\ form.env_names = << <<" ", "Q", "A", " ">> >>
  /\ Names = << <<"Q", "A">> >>

(* C16: releaseComponents has one entry per input component, in input      *)
(* order, none dropped (an empty component still gives an entry); entry i  *)
(* is '<spk> <trimmed lower-cased component i> <releaseDate>:1' under      *)
(* Datical and '<spk> <trimmed lower-cased component i> ${releaseBranch}:1'*)
(* otherwise.                                                              *)
C16_OneEntryPerComponent ==
  Built =>
    LET entries == TheData.component.releaseComponents
    IN /\ Len(entries) = Len(form.components)
       /\ \A i \in 1..Len(form.components) :
            entries[i] =
              Flatten(<< <<"C", "O", "D", "E", "C", "T", "S">>, <<" ">>, lower(strip(form.components[i])), <<" ">>,
                         IF form.platform = "Datical" THEN form.releasedate
                         ELSE <<"$", "{", "r", "e", "l", "e", "a", "s", "e", "B", "r", "a", "n", "c", "h", "}">>,
                         <<":", "1">> >>)

C16_Witness ==
  /\ Built
  /\ form.platform = "Non-Datical"
  /\ form.components = << <<"s", "v", "c", "B">>, <<>> >>
  /\ TheData.component.releaseComponents =
       << <<"C", "O", "D", "E", "C", "T", "S", " ", "s", "v", "c", "b", " ", "$", "{", "r", "e", "l", "e", "a", "s", "e", "B", "r", "a", "n", "c", "h", "}", ":", "1">>, <<"C", "O", "D", "E", "C", "T", "S", " ", " ", "$", "{", "r", "e", "l", "e", "a", "s", "e", "B", "r", "a", "n", "c", "h", "}", ":", "1">> >>

HasDot(s) == \E i \in 1..Len(s) : s[i] = "."

(* C17: a release date without a '.'-delimited month part makes            *)
(* submit_details raise to its caller at once (the IndexError of           *)
(* releasedate.split(".")[1]): no descriptor is built, no file is written. *)
C17_MalformedDateRaises ==
  (submitted # "form" /\ ~HasDot(form.releasedate)) =>
    /\ submitted = "IndexError"
    /\ descriptor = <<>>
    /\ files = <<>>

C17_Witness ==
  /\ submitted = "IndexError"
  /\ form.releasedate = <<"2", "0", "2", "5">>
  /\ files = <<>>

(* C18: with a month part outside '01'..'12' the month abbreviation is     *)
(* empty and submit_details completes without raising; under Datical every *)
(* display name ends in 'FOR' followed by the two-digit year.              *)
C18_UnknownMonth ==
  (submitted # "form" /\ HasDot(form.releasedate)
     /\ split(form.releasedate, {"."})[2] \notin DOMAIN month_mappings) =>
    /\ Built
    /\ Len(files) >= 1
    /\ form.platform = "Datical" =>
         \A i \in 1..Len(form.env_names) :
           Names[i] = Flatten(<< strip(form.env_names[i]), <<"F", "O", "R">>,
                                 Suffix(split(form.releasedate, {"."})[1], 2) >>)

C18_Witness ==
  /\ Built
  /\ form.platform = "Datical"
  /\ form.releasedate = <<"2", "0", "2", "5", ".", "1", "3", ".", "0", "1">>
  /\ form.env_names = << <<"D", "E", "V">> >>
  /\ Names = << <<"D", "E", "V", "F", "O", "R", "2", "5">> >>

----------------------------------------------------------------------------
(* XLRClient.extract_release_id_from_url (src/api_client.py), run on its   *)
(* own on a release train URL.                                             *)

MaxPieces == 3

BaseUrl == <<"h", "t", "t", "p", "s", ":", "/", "/", "x", "l", "r", "/">>

UrlPieces ==
  { <<"R", "e", "l", "e", "a", "s", "e">>, <<"F", "o", "l", "d", "e", "r", "-", "R", "e", "l", "e", "a", "s", "e">>, <<"7">>, <<"b">>, <<"_">>, <<"/">>, <<"#", "/">>,
    <<"/", "r", "e", "l", "a", "t", "i", "o", "n", "s", "h", "i", "p", "s", "/", "t", "a", "b", "l", "e">>, <<"%", "2", "F">>, <<"%", "2", "3">> }

ReleaseTrainUrls == { BaseUrl \o Flatten(l) : l \in ListsUpTo(UrlPieces, MaxPieces) }

(* str.replace *)
RECURSIVE replace(_, _, _)
replace(s, old, new) ==
  IF s = <<>> THEN <<>>
  ELSE IF StartsAt(s, 1, old)
       THEN new \o replace(SubSeq(s, Len(old) + 1, Len(s)), old, new)
       ELSE <<Head(s)>> \o replace(Tail(s), old, new)

ReleaseWord == <<"R", "e", "l", "e", "a", "s", "e">>

(* The last index of the run of alphanumeric characters that starts at i *)
RunEnd(s, i) ==
  CHOOSE j \in i..Len(s) :
    /\ \A k \in i..j : IsAlnum(s[k])
    /\ j = Len(s) \/ ~IsAlnum(s[j + 1])

(* Where re.search(r'Release([a-zA-Z0-9]+)', s) can match *)
ReleaseMatches(s) ==
  { i \in 1..Len(s) : /\ StartsAt(s, i, ReleaseWord)
                      /\ i + Len(ReleaseWord) <= Len(s)
                      /\ IsAlnum(s[i + Len(ReleaseWord)]) }

Min(S) == CHOOSE i \in S : \A j \in S : i <= j

(* First approach: "Release" + release_match.group(1); <<>> without match *)
first_approach(release_url) ==
  IF ReleaseMatches(release_url) = {} THEN <<>>
  ELSE LET i == Min(ReleaseMatches(release_url))
       IN << SubSeq(release_url, i, RunEnd(release_url, i + Len(ReleaseWord))) >>

RECURSIVE FirstReleaseSegment(_)
FirstReleaseSegment(segments) ==
  IF segments = <<>> THEN <<>>
  ELSE IF startswith(Head(segments), ReleaseWord) THEN << Head(segments) >>
       ELSE FirstReleaseSegment(Tail(segments))

(* The body of the loops over the parts of the URL *)
ReleaseOfPart(part) ==
  IF ~Contains(part, ReleaseWord) THEN <<>>
  ELSE IF Contains(part, <<"-", "R", "e", "l", "e", "a", "s", "e">>) THEN FirstReleaseSegment(split(part, {"-"}))
  ELSE IF startswith(part, ReleaseWord) THEN << part >>
  ELSE <<>>

RECURSIVE ScanParts(_)
ScanParts(parts) ==
  IF parts = <<>> THEN <<>>
  ELSE IF ReleaseOfPart(Head(parts)) # <<>> THEN ReleaseOfPart(Head(parts))
       ELSE ScanParts(Tail(parts))

second_approach(release_url) ==
  IF Contains(release_url, <<"#", "/">>) /\ Contains(release_url, <<"/", "r", "e", "l", "a", "t", "i", "o", "n", "s", "h", "i", "p", "s", "/", "t", "a", "b", "l", "e">>)
  THEN ScanParts(split(release_url, {"/"}))
  ELSE <<>>

modified_url(release_url) ==
  replace(replace(release_url, <<"#", "/">>, <<"/">>), <<"/", "r", "e", "l", "a", "t", "i", "o", "n", "s", "h", "i", "p", "s", "/", "t", "a", "b", "l", "e">>, <<>>)

third_approach_skipped(release_url) == <<>>

third_approach(release_url) == ScanParts(split(modified_url(release_url), {"/"}))

decoded(release_url) == replace(replace(release_url, <<"%", "2", "3">>, <<"#">>), <<"%", "2", "F">>, <<"/">>)

extract_release_id_from_url(release_url) ==
  LET u == decoded(release_url)
  IN IF first_approach(u) # <<>> THEN first_approach(u)[1]
     ELSE IF second_approach(u) # <<>> THEN second_approach(u)[1]
     ELSE IF third_approach(u) # <<>> THEN third_approach(u)[1]
     ELSE <<"t", "a", "b", "l", "e">>

ExtractReleaseId ==
  /\ release_id = <<>>
  /\ release_id' = << extract_release_id_from_url(url) >>
  /\ UNCHANGED <<url, pipelineVars, boltVars, spkVars, clientVars, sessionVars>>

ReleaseIdInit ==
  /\ url \in ReleaseTrainUrls
  /\ release_id = <<>>
  /\ PipelineIdle /\ BoltIdle /\ SpkIdle /\ ClientIdle /\ SessionIdle

ReleaseIdNext == ExtractReleaseId

ReleaseIdSpec == ReleaseIdInit /\ [][ReleaseIdNext]_vars

----------------------------------------------------------------------------
(* Properties of the release-key extraction                                *)

(* s[i..j] is a token Release<alphanumerics> of s that no longer token     *)
(* starting at i extends.                                                  *)
IsReleaseToken(s, i, j) ==
  /\ StartsAt(s, i, ReleaseWord)
  /\ j >= i + Len(ReleaseWord) /\ j <= Len(s)
  /\ \A k \in (i + Len(ReleaseWord))..j : IsAlnum(s[k])
  /\ j = Len(s) \/ ~IsAlnum(s[j + 1])

HasReleaseToken(s) == \E i \in 1..Len(s), j \in 1..Len(s) : IsReleaseToken(s, i, j)

(* The pieces a path segment is joined from with hyphens *)
HyphenParts(segment) ==
  LET ps == split(segment, {"-"}) IN { ps[k] : k \in 1..Len(ps) }

PathSegments(s) ==
  LET ps == split(s, {"/"}) IN { ps[k] : k \in 1..Len(ps) }

(* The path segments of the reference that start with 'Release', alone or  *)
(* inside a hyphen-joined compound.                                        *)
ReleaseSegments(s) ==
  { p \in UNION { HyphenParts(seg) \cup {seg} : seg \in PathSegments(s) } :
      startswith(p, ReleaseWord) }

(* C19: the release key is the first token Release<alphanumerics> of the   *)
(* reference when there is one; otherwise it is a path segment that starts *)
(* with 'Release' (taken out of a hyphen-joined compound when needed) when *)
(* there is one; otherwise it is exactly 'table'.  It is never empty.      *)
C19_LayeredReleaseKey ==
  release_id # <<>> =>
    LET id == release_id[1]
        u == decoded(url)
    IN /\ id # <<>>
       /\ HasReleaseToken(url) =>
            \E i \in 1..Len(url), j \in 1..Len(url) :
              /\ IsReleaseToken(url, i, j)
              /\ \A i2 \in 1..(i - 1), j2 \in 1..Len(url) : ~IsReleaseToken(url, i2, j2)
              /\ id = SubSeq(url, i, j)
       /\ (~HasReleaseToken(url) /\ ReleaseSegments(u) # {}) =>
            id \in ReleaseSegments(u) \cup ReleaseSegments(modified_url(u))
       /\ (~HasReleaseToken(url) /\ ReleaseSegments(u) = {}
             /\ ReleaseSegments(modified_url(u)) = {}) =>
            id = <<"t", "a", "b", "l", "e">>

C19_Witness ==
  /\ release_id # <<>>
  /\ url = BaseUrl \o <<"F", "o", "l", "d", "e", "r", "-", "R", "e", "l", "e", "a", "s", "e", "/">>
  /\ release_id[1] = <<"R", "e", "l", "e", "a", "s", "e">>

----------------------------------------------------------------------------
(* The SPK resolution of XLRClient.extract_spk_from_release, in            *)
(* src/api_client.py and in its copy src/InventoryTool/utils/api_client.py,*)
(* run on its own.  A release is the URL given by the user, the outcome of *)
(* the request for the release and the values of its releaseComponents and *)
(* releaseName variables; <<>> is a variable that is absent or empty (the  *)
(* code tests both with `if value:`).                                      *)

SpkUrls ==
  { <<"h", "t", "t", "p", "s", ":", "/", "/", "x", "l", "r", "/", "#", "/", "r", "e", "l", "e", "a", "s", "e", "s", "/", "F", "o", "l", "d", "e", "r", "-", "S", "P", "K", "1", "2", "3", "-", "R", "e", "l", "e", "a", "s", "e", "7">>,
    <<"h", "t", "t", "p", "s", ":", "/", "/", "x", "l", "r", "/", "S", "P", "K", "/", "A", "B", "C", "/", "R", "e", "l", "e", "a", "s", "e", "1">>,
    <<"h", "t", "t", "p", "s", ":", "/", "/", "x", "l", "r", "/", "m", "y", "_", "T", "E", "A", "M", "9", "/", "r", "e", "l", "e", "a", "s", "e">>,
    <<"h", "t", "t", "p", "s", ":", "/", "/", "x", "l", "r", "/", "x", "A", "B", "C", "D", "y", "/", "r", "e", "l", "e", "a", "s", "e">>,
    <<"h", "t", "t", "p", "s", ":", "/", "/", "x", "l", "r", "/", "A", "b", "/", "S", "P", "K", "x", "/", "r", "e", "l", "e", "a", "s", "e">>,
    <<"h", "t", "t", "p", "s", ":", "/", "/", "x", "l", "r", "/", "r", "e", "l", "e", "a", "s", "e", "s", "/", "r", "1">> }

ReleaseComponentsValues ==
  { <<>>, <<" ", " ", " ">>, <<"S", "P", "K", "_", "P", "R", "O", "D", " ", "s", "v", "c", "A">>, <<"C", "O", "D", "E", "C", "T", "S", " ", "s", "v", "c", "A", " ", "s", "v", "c", "B">>, <<"a", "b", "c", " ", "s", "v", "c", "A">>, <<" ", " ", "X", "Y", "Z", "9", "\t", "s", "v", "c", "A">> }

ReleaseNameValues ==
  { <<>>, <<"W", "M", "T", "O", "_", "C", "O", "D", "E", "C", "T", "S", "_", "T", "r", "a", "i", "n">>, <<"D", "E", "V", "O", "P", "S", "-", "r", "e", "l", "e", "a", "s", "e", " ", "t", "r", "a", "i", "n">>, <<"w", "m", "t", "o", "/", "A", "B", "/", "A", "B", "C", "D", "1", " ", "x">>,
    <<"W", "M", "T", "O", " ", "D", "E", "V", "O", "P", "S">> }

Releases ==
  [release_url : SpkUrls, status : HttpStatus,
   releaseComponents : ReleaseComponentsValues, releaseName : ReleaseNameValues]

(* The character class [/_\-\s] of re.split *)
Separators == {"/", "_", "-"} \cup Whitespace

(* str.split() without argument: split on runs of whitespace *)
split_whitespace(s) == SelectSeq(split(s, Whitespace), LAMBDA p : p # <<>>)

Placeholder == <<"S", "P", "K", "_", "P", "R", "O", "D">>

Denylist == { <<"W", "M", "T", "O">>, <<"D", "E", "V", "O", "P", "S">> }

(* The releaseComponents layer: <<spk>>, or <<>> when it yields nothing *)
spk_from_release_components(value) ==
  IF value = <<>> THEN <<>>
  ELSE LET parts == split_whitespace(value)
       IN IF parts # <<>> /\ strip(parts[1]) # <<>> /\ strip(parts[1]) # Placeholder
          THEN << strip(parts[1]) >>
          ELSE <<>>

RECURSIVE FirstUpperPart(_, _)
FirstUpperPart(parts, excluded) ==
  IF parts = <<>> THEN <<>>
  ELSE IF isupper(Head(parts)) /\ Len(Head(parts)) >= 3 /\ Head(parts) \notin excluded
       THEN << Head(parts) >>
       ELSE FirstUpperPart(Tail(parts), excluded)

(* The releaseName layer *)
spk_from_release_name(value) ==
  IF value = <<>> THEN <<>> ELSE FirstUpperPart(split(value, Separators), Denylist)

(* The last index of the run of characters of a class that starts at i *)
ClassRunEnd(s, i, class) ==
  CHOOSE j \in i..Len(s) :
    /\ \A k \in i..j : s[k] \in class
    /\ j = Len(s) \/ s[j + 1] \notin class

IsDigit(c) == c \in Digits

UpperCaseLetters == { UpperLetters[k] : k \in 1..Len(UpperLetters) }

(* re.search(r'SPK(\d+)', release_url) *)
spk_num_match(release_url) ==
  LET starts == { i \in 1..Len(release_url) :
                    /\ StartsAt(release_url, i, <<"S", "P", "K">>)
                    /\ i + 3 <= Len(release_url)
                    /\ IsDigit(release_url[i + 3]) }
  IN IF starts = {} THEN <<>>
     ELSE << SubSeq(release_url, Min(starts),
                    ClassRunEnd(release_url, Min(starts) + 3, Digits)) >>

(* re.search(r'([A-Z]{3,})', release_url) *)
words_match(release_url) ==
  LET starts == { i \in 1..(Len(release_url) - 2) :
                    \A k \in i..(i + 2) : IsUpperLetter(release_url[k]) }
  IN IF starts = {} THEN <<>>
     ELSE << SubSeq(release_url, Min(starts),
                    ClassRunEnd(release_url, Min(starts), UpperCaseLetters)) >>

(* The URL fallback *)
spk_from_url(release_url) ==
  IF spk_num_match(release_url) # <<>> THEN spk_num_match(release_url)
  ELSE IF FirstUpperPart(split(release_url, Separators), {}) # <<>>
       THEN FirstUpperPart(split(release_url, Separators), {})
       ELSE words_match(release_url)

(* result['spk'] of src/api_client.py: <<spk>>, or <<>> for None *)
resolve_spk(r) ==
  IF r.status = "exception" THEN <<>>
  ELSE LET fromVariables ==
             IF r.status # "ok" THEN <<>>
             ELSE IF spk_from_release_components(r.releaseComponents) # <<>>
                  THEN spk_from_release_components(r.releaseComponents)
                  ELSE spk_from_release_name(r.releaseName)
       IN IF fromVariables # <<>> THEN fromVariables ELSE spk_from_url(r.release_url)

(* The return value of the copy in src/InventoryTool/utils/api_client.py   *)
inventory_tool_resolve_spk(r) ==
  IF r.status = "exception" THEN <<>>
  ELSE IF r.status = "ok" /\ spk_from_release_name(r.releaseName) # <<>>
       THEN spk_from_release_name(r.releaseName)
       ELSE spk_from_url(r.release_url)

ExtractSpk ==
  /\ spk_result = <<>>
  /\ spk_result' = << [tool |-> "root", spk |-> resolve_spk(release)] >>
  /\ UNCHANGED <<release, pipelineVars, boltVars, releaseIdVars, clientVars, sessionVars>>

InventoryToolExtractSpk ==
  /\ spk_result = <<>>
  /\ spk_result' = << [tool |-> "InventoryTool", spk |-> inventory_tool_resolve_spk(release)] >>
  /\ UNCHANGED <<release, pipelineVars, boltVars, releaseIdVars, clientVars, sessionVars>>

SpkInit ==
  /\ release \in Releases
  /\ spk_result = <<>>
  /\ PipelineIdle /\ BoltIdle /\ ReleaseIdIdle /\ ClientIdle /\ SessionIdle

SpkNext ==
  \/ ExtractSpk
  \/ InventoryToolExtractSpk

SpkSpec == SpkInit /\ [][SpkNext]_vars

----------------------------------------------------------------------------
(* Properties of the SPK resolution                                        *)

(* The first whitespace-delimited token of a value, as a set: empty when   *)
(* the value has no token.                                                 *)
FirstToken(value) ==
  LET tokens == split_whitespace(value)
  IN IF tokens = <<>> THEN {} ELSE { tokens[1] }

(* The all-uppercase tokens of at least 3 characters of a release name     *)
(* that are not on the denylist, by position.                              *)
NameCandidates(value) ==
  LET tokens == split(value, Separators)
  IN { k \in 1..Len(tokens) :
         isupper(tokens[k]) /\ Len(tokens[k]) >= 3 /\ tokens[k] \notin Denylist }

(* The preference order of the claim, for a release that was fetched *)
PreferredSpk(r) ==
  IF FirstToken(r.releaseComponents) \notin { {}, {Placeholder} }
  THEN << CHOOSE t \in FirstToken(r.releaseComponents) : TRUE >>
  ELSE IF NameCandidates(r.releaseName) # {}
       THEN << split(r.releaseName, Separators)[Min(NameCandidates(r.releaseName))] >>
       ELSE spk_from_url(r.release_url)

(* C20: for a fetched release the SPK is the first token of the            *)
(* releaseComponents variable unless that is the placeholder, whatever     *)
(* releaseName and the URL contain; else the first all-uppercase token of  *)
(* at least 3 characters of releaseName that is not on the denylist; only  *)
(* when both yield nothing is the URL pattern-matched.                     *)
C20_SpkPreferenceOrder ==
  (spk_result # <<>> /\ release.status = "ok") =>
    spk_result[1].spk = PreferredSpk(release)

(* The same order, for the implementation in src/api_client.py alone *)
SpkPreferenceOrderInRoot ==
  (spk_result # <<>> /\ release.status = "ok" /\ spk_result[1].tool = "root") =>
    spk_result[1].spk = PreferredSpk(release)

----------------------------------------------------------------------------
(* XLRClient.extract_spk_from_release (src/api_client.py), run on its own, *)
(* with the three fields of its result.  A call is the URL (by what the    *)
(* patterns find in it), the outcome of the release request, what the      *)
(* variables of the release hold, the outcome of the folder request, and   *)
(* whether reading the variables after the folder lookup raises (a         *)
(* variable whose value is not a string).                                  *)

FolderId == "Folder1"

MetadataCalls ==
  [release_url : ReleaseUrls,
   status : HttpStatus,
   repoOrg : {None, ORG},
   folderID : {None, FolderId},
   folder : HttpStatus,
   folderOrg : {None, ORG},
   releaseComponents : {<<>>, <<"SPK_PROD">>, <<SPK, "Svc1">>},
   releaseNameSpk : {None, SPK},
   pathOrg : {None, ORG},
   late_exception : BOOLEAN]

NullMetadata == [spk |-> None, folder_id |-> None, org_name |-> None]

(* The exceptions the outer except clause catches (lines 339-345) *)
OuterExceptionOfRequestOnly(c) == c.status = "exception"

OuterException(c) ==
  c.status = "exception" \/ (c.status = "ok" /\ c.late_exception)

(* Whether the folder request is made (lines 221-232) *)
FolderLookup(c) == c.status = "ok" /\ c.repoOrg = None /\ c.folderID # None

release_metadata(c) ==
  IF OuterException(c) THEN NullMetadata
  ELSE LET ok   == c.status = "ok"
           org1 == IF ok THEN c.repoOrg ELSE None
           org2 == IF FolderLookup(c) /\ c.folder = "ok" THEN c.folderOrg ELSE org1
           spk1 == IF /\ ok
                      /\ Len(c.releaseComponents) > 0
                      /\ c.releaseComponents[1] # "SPK_PROD"
                   THEN c.releaseComponents[1] ELSE None
           spk2 == IF ok /\ spk1 = None THEN c.releaseNameSpk ELSE spk1
           spk3 == IF spk2 = None THEN c.release_url.spk ELSE spk2
           org3 == IF ok /\ org2 = None THEN c.pathOrg ELSE org2
           org4 == IF org3 = None THEN c.release_url.org ELSE org3
       IN  [spk |-> spk3,
            folder_id |-> IF FolderLookup(c) THEN c.folderID ELSE None,
            org_name |-> org4]

ExtractMetadata ==
  /\ api_result = <<>>
  /\ api_result' = << [raised |-> FALSE, value |-> release_metadata(api_call)] >>
  /\ UNCHANGED <<api_call, pipelineVars, boltVars, releaseIdVars, spkVars, sessionVars>>

MetadataInit ==
  /\ api_call \in MetadataCalls
  /\ api_result = <<>>
  /\ PipelineIdle /\ BoltIdle /\ ReleaseIdIdle /\ SpkIdle /\ SessionIdle

MetadataNext == ExtractMetadata

MetadataSpec == MetadataInit /\ [][MetadataNext]_vars

(* An exception is raised during the folder lookup *)
FolderLookupRaises == FolderLookup(api_call) /\ api_call.folder = "exception"

(* An exception is raised by the release request, by decoding its body or  *)
(* while the variables are read.                                           *)
ExtractionRaises ==
  \/ api_call.status = "exception"
  \/ api_call.status = "ok" /\ api_call.late_exception

(* C21 as stated: extraction never raises, and an exception at any point,  *)
(* the folder lookup included, gives a record whose three fields are null. *)
C21_AnyExceptionGivesNull ==
  api_result # <<>> =>
    /\ ~api_result[1].raised
    /\ (ExtractionRaises \/ FolderLookupRaises) => api_result[1].value = NullMetadata

(* C21, amended: extraction never raises; an exception of the release      *)
(* request or of reading its variables gives a record whose three fields   *)
(* are null; an exception during the folder lookup is caught on the spot:  *)
(* folder_id keeps the folder id and the other fields are what they are    *)
(* when the folder request fails without raising.                          *)
C21_ExceptionsAreCaught ==
  api_result # <<>> =>
    /\ ~api_result[1].raised
    /\ ExtractionRaises => api_result[1].value = NullMetadata
    /\ (FolderLookupRaises /\ ~ExtractionRaises) =>
         /\ api_result[1].value.folder_id = api_call.folderID
         /\ api_result[1].value =
              release_metadata([api_call EXCEPT !.folder = "http_error"])

C21_Witness ==
  /\ api_result # <<>>
  /\ FolderLookupRaises /\ ~ExtractionRaises
  /\ api_result[1].value.folder_id = FolderId
  /\ api_result[1].value.spk = SPK

----------------------------------------------------------------------------
(* XLRClient.get_components_from_release, in src/api_client.py and in its  *)
(* copy src/InventoryTool/utils/api_client.py, run on its own.  A call is  *)
(* the outcome of the release request, the value of the releaseComponents  *)
(* variable (<<>> when absent or empty) and the names the scan of the      *)
(* phases and tasks captures.                                              *)

ReleaseComponentsTexts ==
  { <<>>, <<" ", " ", " ">>, <<"S", "P", "K", "9", "9">>, <<"S", "P", "K", "9", "9", " ", "s", "v", "c", "A", " ", "s", "v", "c", "B">>, <<" ", "S", "P", "K", "9", "9", " ", " ", "s", "v", "c", "B", "\t", "s", "v", "c", "A", " ">>,
    <<"S", "P", "K", "9", "9", " ", "s", "v", "c", "_", "a", " ", "s", "v", "c", "_", "a">>, <<"S", "P", "K", "_", "1", " ", "2", "0", "2", "5", ".", "0", "3", ".", "1", "5", "_", "x", " ", "s", "v", "c", "_", "b">> }

PhaseComponentLists == { <<>>, << <<"D", "e", "p", "l", "o", "y">> >>, << <<"W", "e", "b">>, <<"D", "b">> >> }

ComponentCalls ==
  [status : HttpStatus,
   releaseComponents : ReleaseComponentsTexts,
   phaseComponents : PhaseComponentLists]

Components(names) == [i \in 1..Len(names) |-> Component(names[i])]

(* src/api_client.py:353-434 *)
components_of_release(c) ==
  IF c.status # "ok" THEN <<>>
  ELSE LET parts == split_whitespace(c.releaseComponents)
       IN IF c.releaseComponents # <<>> /\ Len(parts) > 1
          THEN Components(SelectSeq(Tail(parts), LAMBDA n : strip(n) # <<>>))
          ELSE Components(c.phaseComponents)

(* re.match(r'\d{4}\.\d{2}\.\d{2}', entry) *)
IsDateLike(entry) ==
  /\ Len(entry) >= 10
  /\ \A k \in {1, 2, 3, 4, 6, 7, 9, 10} : entry[k] \in Digits
  /\ entry[5] = "." /\ entry[8] = "."

(* src/InventoryTool/utils/api_client.py:164-226; `entry not in            *)
(* components` compares a string with dictionaries and is always true.     *)
inventory_tool_components_of_release(c) ==
  IF c.status # "ok" THEN <<>>
  ELSE LET entries == split_whitespace(c.releaseComponents)
           kept == SelectSeq(entries, LAMBDA e : Contains(e, <<"_">>) /\ ~IsDateLike(e))
       IN IF kept # <<>> THEN Components(kept) ELSE Components(c.phaseComponents)

GetComponents ==
  /\ api_result = <<>>
  /\ api_result' = << [tool |-> "root", value |-> components_of_release(api_call)] >>
  /\ UNCHANGED <<api_call, pipelineVars, boltVars, releaseIdVars, spkVars, sessionVars>>

InventoryToolGetComponents ==
  /\ api_result = <<>>
  /\ api_result' = << [tool |-> "InventoryTool",
                       value |-> inventory_tool_components_of_release(api_call)] >>
  /\ UNCHANGED <<api_call, pipelineVars, boltVars, releaseIdVars, spkVars, sessionVars>>

ComponentsInit ==
  /\ api_call \in ComponentCalls
  /\ api_result = <<>>
  /\ PipelineIdle /\ BoltIdle /\ ReleaseIdIdle /\ SpkIdle /\ SessionIdle

ComponentsNext ==
  \/ GetComponents
  \/ InventoryToolGetComponents

ComponentsSpec == ComponentsInit /\ [][ComponentsNext]_vars

ResultNames == [i \in 1..Len(api_result[1].value) |-> api_result[1].value[i].name]

(* C22: when the release declares a releaseComponents variable, the        *)
(* components returned are exactly its whitespace-delimited tokens after   *)
(* the first one, in their order, whatever the phases and tasks hold       *)
(* ("SPK99 svcA svcB" gives svcA, svcB).                                   *)
C22_ComponentsFromVariable ==
  (/\ api_result # <<>>
   /\ api_call.status = "ok"
   /\ split_whitespace(api_call.releaseComponents) # <<>>) =>
    ResultNames = Tail(split_whitespace(api_call.releaseComponents))

(* The same for the implementation in src/api_client.py and a variable of  *)
(* at least two tokens.                                                    *)
ComponentsFromVariableInRoot ==
  (/\ api_result # <<>>
   /\ api_result[1].tool = "root"
   /\ api_call.status = "ok"
   /\ Len(split_whitespace(api_call.releaseComponents)) > 1) =>
    ResultNames = Tail(split_whitespace(api_call.releaseComponents))

----------------------------------------------------------------------------
(* XLRClient.get_environments_for_components, in src/api_client.py and in  *)
(* its copy src/InventoryTool/utils/api_client.py, run on its own.  A call *)
(* is the component list, whether a release URL is passed, the outcome of  *)
(* the release request, the integratedReleaseEnvironments variable (<<>>   *)
(* when the release has none, <<value>> otherwise) and, per component, the *)
(* outcome of the request for its sub-tasks.                               *)

EnvironmentsTexts ==
  { <<>>, <<",">>, <<" ", ";", " ">>, <<"P", "R", "O", "D">>, <<"d", "e", "v", ",", " ", "D", "e", "v", ";", "P", "R", "O", "D">>, <<"u", "a", "t", "\n", "L", "L", "E", " ", "u", "a", "t">> }

SubTaskTitleLists ==
  { <<>>, << <<"D", "e", "p", "l", "o", "y", " ", "t", "o", " ", "d", "e", "v">> >>, << <<"Q", "A", " ", "a", "n", "d", " ", "P", "R", "O", "D">>, <<"p", "r", "o", "d", " ", "r", "e", "s", "t", "a", "r", "t">> >> }

SubTaskOutcomes ==
  {[status |-> "http_error", titles |-> <<>>], [status |-> "exception", titles |-> <<>>]}
    \cup { [status |-> "ok", titles |-> t] : t \in SubTaskTitleLists }

ComponentIds == {None, "Task1"}

ComponentNames == << <<"s", "v", "c", "A">>, <<"s", "v", "c", "_", "b">>, <<"s", "v", "c", "C">>, <<"s", "v", "c", "D">> >>

ComponentInputs ==
  UNION { { [i \in 1..n |-> [id |-> ids[i], name |-> ComponentNames[i], environments |-> <<>>]] :
              ids \in [1..n -> ComponentIds] } : n \in 0..MaxComponents }

EnvironmentCalls ==
  UNION { [components : {cs},
           release_url : BOOLEAN,
           status : HttpStatus,
           integratedReleaseEnvironments :
             {<<>>} \cup { <<t>> : t \in EnvironmentsTexts },
           tasks : [1..Len(cs) -> SubTaskOutcomes]] : cs \in ComponentInputs }

(* the character class of both patterns, with \s written out *)
EnvironmentSeparators == {",", ";", "\n", "\r"} \cup Whitespace

(* [env.strip() for env in re.split(r'[,;\s]+', value) if env.strip()] *)
environments_of_variable(value) ==
  LET parts == SelectSeq(split(value, EnvironmentSeparators), LAMBDA p : strip(p) # <<>>)
  IN [i \in 1..Len(parts) |-> strip(parts[i])]

InSeq(x, s) == \E i \in 1..Len(s) : s[i] = x

RECURSIVE Dedupe(_)
Dedupe(s) ==
  IF s = <<>> THEN <<>>
  ELSE LET front == Dedupe(SubSeq(s, 1, Len(s) - 1))
       IN IF InSeq(s[Len(s)], front) THEN front ELSE Append(front, s[Len(s)])

(* env.strip().upper(), kept when not yet in global_environments *)
global_environments(value) ==
  Dedupe(LET parts == split(value, EnvironmentSeparators)
         IN SelectSeq([i \in 1..Len(parts) |-> upper(strip(parts[i]))],
                      LAMBDA p : p # <<>>))

env_keywords ==
  << <<"D", "E", "V">>, <<"T", "E", "S", "T">>, <<"Q", "A">>, <<"U", "A", "T">>, <<"S", "T", "A", "G", "I", "N", "G">>, <<"P", "R", "O", "D">>, <<"P", "R", "O", "D", "U", "C", "T", "I", "O", "N">>, <<"L", "L", "E">> >>

InventoryToolKeywords == << <<"L", "L", "E">>, <<"P", "R", "O", "D">>, <<"U", "A", "T">>, <<"D", "E", "V">>, <<"T", "E", "S", "T">> >>

(* one sub-task: the first keyword of the title that is not yet listed is  *)
(* appended, and the scan of this title stops there                        *)
KeywordOfTitle(title, environments) ==
  LET hits == { k \in 1..Len(env_keywords) :
                  /\ Contains(upper(title), env_keywords[k])
                  /\ ~InSeq(env_keywords[k], environments) }
  IN IF hits = {} THEN environments
     ELSE Append(environments,
                 env_keywords[CHOOSE k \in hits : \A j \in hits : k <= j])

RECURSIVE KeywordsOfTitles(_, _)
KeywordsOfTitles(titles, environments) ==
  IF titles = <<>> THEN environments
  ELSE KeywordsOfTitles(Tail(titles), KeywordOfTitle(Head(titles), environments))

(* one sub-task in the InventoryTool copy: every keyword of the title that *)
(* is not yet listed is appended                                           *)
RECURSIVE InventoryToolKeywordsOfTitle(_, _, _)
InventoryToolKeywordsOfTitle(title, k, environments) ==
  IF k > Len(InventoryToolKeywords) THEN environments
  ELSE InventoryToolKeywordsOfTitle(title, k + 1,
         IF /\ Contains(upper(title), InventoryToolKeywords[k])
            /\ ~InSeq(InventoryToolKeywords[k], environments)
         THEN Append(environments, InventoryToolKeywords[k])
         ELSE environments)

RECURSIVE InventoryToolKeywordsOfTitles(_, _)
InventoryToolKeywordsOfTitles(titles, environments) ==
  IF titles = <<>> THEN environments
  ELSE InventoryToolKeywordsOfTitles(Tail(titles),
         InventoryToolKeywordsOfTitle(Head(titles), 1, environments))

DefaultEnvironmentNames == << <<"D", "E", "V">>, <<"T", "E", "S", "T">>, <<"P", "R", "O", "D">> >>

InventoryToolDefaultEnvironments == << <<"P", "R", "O", "D">> >>

(* the environments of one component on the fallback path of               *)
(* src/api_client.py: a request that raises is caught per component        *)
FallbackEnvironments(component, task) ==
  LET found == IF component.id # None /\ task.status = "ok"
               THEN KeywordsOfTitles(task.titles, <<>>)
               ELSE <<>>
  IN IF found = <<>> THEN DefaultEnvironmentNames ELSE found

(* src/api_client.py:436-539 *)
environments_for_components(c) ==
  IF c.components = <<>> THEN <<>>
  ELSE IF c.release_url /\ c.status = "exception" THEN c.components
  ELSE IF /\ c.release_url /\ c.status = "ok"
          /\ c.integratedReleaseEnvironments # <<>>
          /\ c.integratedReleaseEnvironments[1] # <<>>
       THEN [i \in 1..Len(c.components) |->
               [c.components[i] EXCEPT
                  !.environments =
                     environments_of_variable(c.integratedReleaseEnvironments[1])]]
       ELSE [i \in 1..Len(c.components) |->
               [c.components[i] EXCEPT
                  !.environments = FallbackEnvironments(c.components[i], c.tasks[i])]]

(* the environments of one component in the InventoryTool copy *)
InventoryToolEnvironments(component, task, globals) ==
  IF globals # <<>> /\ component.id # None THEN globals
  ELSE LET found == IF component.id # None /\ task.status = "ok"
                    THEN InventoryToolKeywordsOfTitles(task.titles, globals)
                    ELSE globals
       IN IF found = <<>> THEN InventoryToolDefaultEnvironments ELSE found

(* src/InventoryTool/utils/api_client.py:230-305: a sub-task request that  *)
(* raises is caught by the only handler, which returns the input           *)
inventory_tool_environments_for_components(c) ==
  LET globals == IF /\ c.release_url /\ c.status = "ok"
                    /\ c.integratedReleaseEnvironments # <<>>
                    /\ c.integratedReleaseEnvironments[1] # <<>>
                 THEN global_environments(c.integratedReleaseEnvironments[1])
                 ELSE <<>>
      fetched(i) == (globals = <<>> \/ c.components[i].id = None) /\ c.components[i].id # None
  IN IF c.release_url /\ c.status = "exception" THEN c.components
     ELSE IF \E i \in 1..Len(c.components) : fetched(i) /\ c.tasks[i].status = "exception"
     THEN c.components
     ELSE [i \in 1..Len(c.components) |->
             [c.components[i] EXCEPT
                !.environments =
                   InventoryToolEnvironments(c.components[i], c.tasks[i], globals)]]

GetEnvironments ==
  /\ api_result = <<>>
  /\ api_result' = << [tool |-> "root", value |-> environments_for_components(api_call)] >>
  /\ UNCHANGED <<api_call, pipelineVars, boltVars, releaseIdVars, spkVars, sessionVars>>

InventoryToolGetEnvironments ==
  /\ api_result = <<>>
  /\ api_result' = << [tool |-> "InventoryTool",
                       value |-> inventory_tool_environments_for_components(api_call)] >>
  /\ UNCHANGED <<api_call, pipelineVars, boltVars, releaseIdVars, spkVars, sessionVars>>

EnvironmentsInit ==
  /\ api_call \in EnvironmentCalls
  /\ api_result = <<>>
  /\ PipelineIdle /\ BoltIdle /\ ReleaseIdIdle /\ SpkIdle /\ SessionIdle

EnvironmentsNext ==
  \/ GetEnvironments
  \/ InventoryToolGetEnvironments

EnvironmentsSpec == EnvironmentsInit /\ [][EnvironmentsNext]_vars

(* the tokens of a value, upper-cased *)
UpperCasedTokens(value) ==
  [i \in 1..Len(environments_of_variable(value)) |->
     upper(environments_of_variable(value)[i])]

(* the release request answered and the variable holds at least one token *)
VariableGiven ==
  /\ api_call.release_url /\ api_call.status = "ok"
  /\ api_call.integratedReleaseEnvironments # <<>>
  /\ environments_of_variable(api_call.integratedReleaseEnvironments[1]) # <<>>

(* C23: when the release declares an integratedReleaseEnvironments         *)
(* variable, every component returned carries the same environment list:   *)
(* the tokens of the value, split on commas, semicolons and whitespace,    *)
(* upper-cased, without duplicates ("dev, Dev;PROD" gives DEV, PROD).      *)
C23_EnvironmentsFromVariable ==
  (api_result # <<>> /\ VariableGiven) =>
    /\ Len(api_result[1].value) = Len(api_call.components)
    /\ \A i \in 1..Len(api_result[1].value) :
         api_result[1].value[i].environments =
           Dedupe(UpperCasedTokens(api_call.integratedReleaseEnvironments[1]))

(* The same for the implementation in the InventoryTool copy, a call of    *)
(* which no sub-task request raises.                                       *)
EnvironmentsFromVariableInInventoryTool ==
  (/\ api_result # <<>> /\ VariableGiven
   /\ api_result[1].tool = "InventoryTool"
   /\ \A i \in 1..Len(api_call.components) : api_call.tasks[i].status # "exception") =>
    /\ Len(api_result[1].value) = Len(api_call.components)
    /\ \A i \in 1..Len(api_result[1].value) :
         api_result[1].value[i].environments =
           Dedupe(UpperCasedTokens(api_call.integratedReleaseEnvironments[1]))

(* C24: for a non-empty component list and whatever the API does, the      *)
(* components of src/api_client.py come back in the same number and order  *)
(* as given, each with a non-empty environments list.                      *)
C24_EveryComponentHasEnvironments ==
  (/\ api_result # <<>>
   /\ api_result[1].tool = "root"
   /\ api_call.components # <<>>) =>
    /\ Len(api_result[1].value) = Len(api_call.components)
    /\ \A i \in 1..Len(api_call.components) :
         /\ api_result[1].value[i].name = api_call.components[i].name
         /\ api_result[1].value[i].id = api_call.components[i].id
         /\ api_result[1].value[i].environments # <<>>

(* The same on the paths where the release request does not raise and the  *)
(* variable, if any, holds a token.                                        *)
EveryComponentHasEnvironmentsUnlessRaised ==
  (/\ api_result # <<>>
   /\ api_result[1].tool = "root"
   /\ api_call.components # <<>>
   /\ ~(api_call.release_url /\ api_call.status = "exception")
   /\ (VariableGiven \/ ~api_call.release_url \/ api_call.status # "ok"
         \/ api_call.integratedReleaseEnvironments \in {<<>>, << <<>> >>})) =>
    /\ Len(api_result[1].value) = Len(api_call.components)
    /\ \A i \in 1..Len(api_call.components) :
         /\ api_result[1].value[i].name = api_call.components[i].name
         /\ api_result[1].value[i].environments # <<>>

----------------------------------------------------------------------------
(* AnsibleTowerClient.get_inventories_by_spk run on its own.  A call is    *)
(* the spk_data dictionary, the outcome of the inventories request and the *)
(* inventories it lists, each with the outcome of its groups request.      *)

(* an inventory named after the SPK and the organization, without the      *)
(* _PROD suffix                                                            *)
InventoryE(gs) == [id |-> 14, name |-> [spk |-> SPK, prod |-> FALSE, lower |-> FALSE, org |-> ORG],
                   groups_status |-> gs, groups |-> GroupsA]

InventorySearchResults ==
  {<<>>}
    \cup { <<InventoryA(a)>> : a \in HttpStatus }
    \cup { <<InventoryB(a)>> : a \in HttpStatus }
    \cup { <<InventoryA(a), InventoryB(b)>> : a \in HttpStatus, b \in HttpStatus }
    \cup { <<InventoryB(a), InventoryC(b)>> : a \in HttpStatus, b \in HttpStatus }
    \cup { <<InventoryA(a), InventoryE(b)>> : a \in HttpStatus, b \in HttpStatus }
    \cup { <<InventoryD(a), InventoryC(b)>> : a \in HttpStatus, b \in HttpStatus }

InventoryCalls ==
  [spk_data : [spk : {None, SPK}, org_name : {None, ORG}],
   status : HttpStatus,
   results : InventorySearchResults]

GetInventories ==
  /\ api_result = <<>>
  /\ api_result' = << [value |-> get_inventories_by_spk(api_call.spk_data, api_call)] >>
  /\ UNCHANGED <<api_call, pipelineVars, boltVars, releaseIdVars, spkVars, sessionVars>>

InventoriesInit ==
  /\ api_call \in InventoryCalls
  /\ api_result = <<>>
  /\ PipelineIdle /\ BoltIdle /\ ReleaseIdIdle /\ SpkIdle /\ SessionIdle

InventoriesNext == GetInventories

InventoriesSpec == InventoriesInit /\ [][InventoriesNext]_vars

(* the listed inventories whose name contains '<spk>_PROD' *)
ProdMatches ==
  SelectSeq(api_call.results, LAMBDA inv : ExactMatch(api_call.spk_data.spk, inv.name))

(* those of them whose name contains the organization tag *)
TaggedProdMatches ==
  SelectSeq(ProdMatches, LAMBDA inv : inv.name.org = api_call.spk_data.org_name)

Retained(invs) == [i \in 1..Len(invs) |-> [id |-> invs[i].id, name |-> invs[i].name, groups |-> invs[i].groups]]

TagGiven ==
  /\ api_call.status = "ok"
  /\ api_call.spk_data.spk # None
  /\ api_call.spk_data.org_name # None

(* C25: with an organization tag given and at least one '<spk>_PROD'       *)
(* inventory carrying it, only '<spk>_PROD' inventories that carry the tag *)
(* are returned.                                                           *)
C25_OnlyTaggedProdMatches ==
  (api_result # <<>> /\ TagGiven /\ TaggedProdMatches # <<>>) =>
    \A i \in 1..Len(api_result[1].value) :
       InSeq(api_result[1].value[i], Retained(TaggedProdMatches))

(* What holds of the same calls: no inventory without the tag is returned, *)
(* and when the groups of a tagged '<spk>_PROD' inventory are fetched and  *)
(* no groups request raises, the result is the tagged '<spk>_PROD'         *)
(* inventories whose groups were fetched, in the order of the listing.     *)
TaggedProdMatchesWhenGroupsFetched ==
  (api_result # <<>> /\ TagGiven /\ TaggedProdMatches # <<>>) =>
    /\ \A i \in 1..Len(api_result[1].value) :
         api_result[1].value[i].name.org = api_call.spk_data.org_name
    /\ (/\ \E i \in 1..Len(TaggedProdMatches) : TaggedProdMatches[i].groups_status = "ok"
        /\ \A i \in 1..Len(TaggedProdMatches) : TaggedProdMatches[i].groups_status # "exception") =>
         api_result[1].value =
           Retained(SelectSeq(TaggedProdMatches, LAMBDA inv : inv.groups_status = "ok"))

(* C26: with an organization tag given that no '<spk>_PROD' inventory      *)
(* carries, every '<spk>_PROD' inventory is returned (here: when the       *)
(* groups of each of them are fetched).                                    *)
C26_FallsBackToUnfiltered ==
  (/\ api_result # <<>> /\ TagGiven
   /\ ProdMatches # <<>> /\ TaggedProdMatches = <<>>
   /\ \A i \in 1..Len(ProdMatches) : ProdMatches[i].groups_status = "ok") =>
    api_result[1].value = Retained(ProdMatches)

(* What holds instead: the filter is applied in both passes, so nothing    *)
(* without the tag is ever returned.                                       *)
TagFilterIsNeverLifted ==
  (api_result # <<>> /\ TagGiven) =>
    \A i \in 1..Len(api_result[1].value) :
       api_result[1].value[i].name.org = api_call.spk_data.org_name

----------------------------------------------------------------------------
(* AnsibleTowerClient.get_servers_for_component, in src/api_client.py and  *)
(* in its copy src/InventoryTool/utils/api_client.py, run on its own.  A   *)
(* call is the component, the environment, the inventories with their      *)
(* groups and what the network answers.                                    *)

ServerInventories ==
  { <<>>,
    Retained(<<InventoryA("ok")>>),
    Retained(<<InventoryA("ok"), InventoryB("ok")>>) }

ServerCalls ==
  [component_name : {"Svc1", "Svc2"},
   environment : {"dev", "PROD"},
   inventories : ServerInventories,
   net : ServerResponses]

(* a.lower() in b.lower(), for a word a and a word b of a group name *)
WordContains(b, a) ==
  \/ Lower(a) = Lower(b)
  \/ Lower(a) = "prod" /\ Lower(b) = "production"

(* component_name.lower() in group_name.lower() and                        *)
(* environment.lower() in group_name.lower()                               *)
InventoryToolGroupMatches(group, component_name, environment) ==
  /\ \E i \in 1..Len(group.name) : WordContains(group.name[i], component_name)
  /\ \E i \in 1..Len(group.name) : WordContains(group.name[i], environment)

InventoryToolCandidateGroups(groups, component_name, environment) ==
  SelectSeq(groups, LAMBDA g : InventoryToolGroupMatches(g, component_name, environment))

(* one record per host of the group, whether or not the host is already    *)
(* listed; the detail answers carry enabled = true                         *)
InventoryToolHostsOfGroup(hosts, group, component_name, environment, detail) ==
  [i \in 1..Len(hosts) |->
     ServerRecord(hosts[i], group, component_name, environment, detail)]

RECURSIVE InventoryToolServersOfGroups(_, _, _, _)
InventoryToolServersOfGroups(groups, component_name, environment, net) ==
  IF groups = <<>> THEN <<>>
  ELSE InventoryToolHostsOfGroup(net.hosts, Head(groups), component_name,
                                 environment, net.detail)
       \o InventoryToolServersOfGroups(Tail(groups), component_name, environment, net)

(* src/InventoryTool/utils/api_client.py:387-449: a host whose detail      *)
(* request answers non-200 is skipped, and any exception empties the       *)
(* result                                                                  *)
inventory_tool_get_servers_for_component(component_name, environment, invs, net) ==
  LET groups == InventoryToolCandidateGroups(
                  Flatten([i \in 1..Len(invs) |-> invs[i].groups]),
                  component_name, environment)
  IN IF groups = <<>> THEN <<>>
     ELSE IF net.hosts_status = "exception" THEN <<>>
     ELSE IF net.hosts_status # "ok" THEN <<>>
     ELSE IF net.hosts # <<>> /\ net.detail = "exception" THEN <<>>
     ELSE IF net.detail = "http_error" THEN <<>>
     ELSE InventoryToolServersOfGroups(groups, component_name, environment, net)

GetServers ==
  /\ api_result = <<>>
  /\ api_result' =
       << [tool |-> "root",
           groups |-> CandidateGroups(
                        Flatten([i \in 1..Len(api_call.inventories) |->
                                   api_call.inventories[i].groups]),
                        api_call.component_name, api_call.environment),
           value |-> get_servers_for_component(api_call.component_name,
                       api_call.environment, api_call.inventories, api_call.net)] >>
  /\ UNCHANGED <<api_call, pipelineVars, boltVars, releaseIdVars, spkVars, sessionVars>>

InventoryToolGetServers ==
  /\ api_result = <<>>
  /\ api_result' =
       << [tool |-> "InventoryTool",
           groups |-> InventoryToolCandidateGroups(
                        Flatten([i \in 1..Len(api_call.inventories) |->
                                   api_call.inventories[i].groups]),
                        api_call.component_name, api_call.environment),
           value |-> inventory_tool_get_servers_for_component(api_call.component_name,
                       api_call.environment, api_call.inventories, api_call.net)] >>
  /\ UNCHANGED <<api_call, pipelineVars, boltVars, releaseIdVars, spkVars, sessionVars>>

ServersInit ==
  /\ api_call \in ServerCalls
  /\ api_result = <<>>
  /\ PipelineIdle /\ BoltIdle /\ ReleaseIdIdle /\ SpkIdle /\ SessionIdle

ServersNext ==
  \/ GetServers
  \/ InventoryToolGetServers

ServersSpec == ServersInit /\ [][ServersNext]_vars

(* a candidate group lists hosts and the detail request of each fails *)
DetailFetchFails ==
  /\ api_result[1].groups # <<>>
  /\ api_call.net.hosts_status = "ok"
  /\ api_call.net.hosts # <<>>
  /\ api_call.net.detail \in {"http_error", "exception"}

(* C27: a host of a candidate group whose detail request answers non-200   *)
(* or raises is in the output, with os_info "Unknown" and enabled true.    *)
C27_FailedDetailKeepsHost ==
  (api_result # <<>> /\ DetailFetchFails) =>
    \A h \in 1..Len(api_call.net.hosts) :
       \E i \in 1..Len(api_result[1].value) :
          /\ api_result[1].value[i].server_name = api_call.net.hosts[h]
          /\ api_result[1].value[i].os_info = "Unknown"
          /\ api_result[1].value[i].enabled

(* What holds in src/api_client.py: the host is kept and enabled, with     *)
(* os_info "Unknown" after a non-200 answer and "Unknown (Error)" after an *)
(* exception.                                                              *)
FailedDetailKeepsHostInRoot ==
  (api_result # <<>> /\ api_result[1].tool = "root" /\ DetailFetchFails) =>
    \A h \in 1..Len(api_call.net.hosts) :
       \E i \in 1..Len(api_result[1].value) :
          /\ api_result[1].value[i].server_name = api_call.net.hosts[h]
          /\ api_result[1].value[i].os_info =
               IF api_call.net.detail = "http_error" THEN "Unknown" ELSE "Unknown (Error)"
          /\ api_result[1].value[i].enabled

(* C28: no two records of one call's output have the same server_name.     *)
C28_NoDuplicateServerNames ==
  api_result # <<>> =>
    \A i, j \in 1..Len(api_result[1].value) :
       api_result[1].value[i].server_name = api_result[1].value[j].server_name => i = j

(* The same for the implementation in src/api_client.py only.              *)
NoDuplicateServerNamesInRoot ==
  (api_result # <<>> /\ api_result[1].tool = "root") =>
    \A i, j \in 1..Len(api_result[1].value) :
       api_result[1].value[i].server_name = api_result[1].value[j].server_name => i = j

----------------------------------------------------------------------------
(* The session of one browser across the routes /authenticate, /fetch_data *)
(* and /logout of src/app.py.  A key of the session is <<>> when absent    *)
(* and <<value>> when present; handled is the list of the requests served, *)
(* each with its status code, the session before and after it and, for a   *)
(* fetch_data that starts the pipeline, the URLs and tokens its clients    *)
(* are built with.                                                         *)

MaxRequests == 3

EmptySession ==
  [xlr_url |-> <<>>, ansible_url |-> <<>>, xlr_token |-> <<>>, ansible_token |-> <<>>]

Site1 == [xlr |-> "https://xlr1", ansible |-> "https://tower1"]
Site2 == [xlr |-> "https://xlr2", ansible |-> "https://tower2"]

(* no URL in the request and none in config.json *)
EmptyUrls == [xlr |-> "", ansible |-> ""]

(* URLs of a JSON body that are not strings *)
NonStringUrls == [xlr |-> "123", ansible |-> "456"]

IsString(base_url) == base_url \notin {NonStringUrls.xlr, NonStringUrls.ansible}

Credentials ==
  { [username |-> "nbk1", password |-> "pw1"], [username |-> "nbk2", password |-> "pw2"] }

(* What one /authenticate request carries and what the two connection      *)
(* tests answer; where the tests are not reached their answers are fixed.  *)
AuthenticateRequests ==
  [body_ok : {FALSE}, urls : {Site1}, credentials : {[username |-> "nbk1", password |-> "pw1"]},
   xlr_status : {FALSE}, ansible_status : {FALSE}]
    \cup [body_ok : {TRUE}, urls : {EmptyUrls, NonStringUrls},
          credentials : {[username |-> "nbk1", password |-> "pw1"]},
          xlr_status : {FALSE}, ansible_status : {FALSE}]
    \cup [body_ok : {TRUE}, urls : {Site1, Site2}, credentials : Credentials,
          xlr_status : BOOLEAN, ansible_status : BOOLEAN]

(* b64encode(f"{username}:{password}") *)
create_basic_auth(username, password) == <<"b64", username, ":", password>>

(* src/app.py:54-153: the session and the status code after the request *)
authenticate(s, req) ==
  IF ~req.body_ok THEN [session |-> s, status |-> 500]
  ELSE IF req.urls.xlr = "" \/ req.urls.ansible = "" THEN [session |-> s, status |-> 500]
  ELSE LET stored == [s EXCEPT !.xlr_url = <<req.urls.xlr>>,
                               !.ansible_url = <<req.urls.ansible>>]
       IN IF ~IsString(req.urls.xlr) \/ ~IsString(req.urls.ansible)
          THEN [session |-> stored, status |-> 500]
          ELSE IF req.xlr_status /\ req.ansible_status
          THEN [session |->
                  [stored EXCEPT
                     !.xlr_token = <<create_basic_auth(req.credentials.username,
                                                       req.credentials.password)>>,
                     !.ansible_token = <<create_basic_auth(req.credentials.username,
                                                           req.credentials.password)>>],
                status |-> 200]
          ELSE [session |-> stored, status |-> 401]

clear_urls_only(s) == [s EXCEPT !.xlr_url = <<>>, !.ansible_url = <<>>]

(* session.clear() *)
clear(s) == EmptySession

(* src/app.py:156-181 and 442-446: the status code and what the clients    *)
(* are built with                                                          *)
fetch_data(s, url_given) ==
  IF s.xlr_token = <<>> \/ s.ansible_token = <<>>
  THEN [status |-> 401, sent |-> <<>>]
  ELSE IF ~url_given THEN [status |-> 400, sent |-> <<>>]
  ELSE IF s.xlr_url = <<>> \/ s.ansible_url = <<>>
  THEN [status |-> 500, sent |-> <<>>]
  ELSE IF ~IsString(s.xlr_url[1]) \/ ~IsString(s.ansible_url[1])
  THEN [status |-> 500, sent |-> <<>>]
  ELSE [status |-> 200,
        sent |-> << [xlr_url |-> s.xlr_url[1], xlr_token |-> s.xlr_token[1],
                     ansible_url |-> s.ansible_url[1],
                     ansible_token |-> s.ansible_token[1]] >>]

Handled(request, status, before, after, sent) ==
  [request |-> request, status |-> status, before |-> before, after |-> after,
   sent |-> sent]

AuthenticateRequest(req) ==
  /\ Len(handled) < MaxRequests
  /\ session' = authenticate(session, req).session
  /\ handled' = Append(handled,
                  Handled("authenticate", authenticate(session, req).status,
                          session, session', <<>>))
  /\ UNCHANGED <<pipelineVars, boltVars, releaseIdVars, spkVars, clientVars>>

Authenticate == \E req \in AuthenticateRequests : AuthenticateRequest(req)

Logout ==
  /\ Len(handled) < MaxRequests
  /\ session' = clear(session)
  /\ handled' = Append(handled, Handled("logout", 200, session, session', <<>>))
  /\ UNCHANGED <<pipelineVars, boltVars, releaseIdVars, spkVars, clientVars>>

FetchDataRequest(url_given) ==
  /\ Len(handled) < MaxRequests
  /\ session' = session
  /\ handled' = Append(handled,
                  Handled("fetch_data", fetch_data(session, url_given).status,
                          session, session,
                          fetch_data(session, url_given).sent))
  /\ UNCHANGED <<pipelineVars, boltVars, releaseIdVars, spkVars, clientVars>>

FetchData == \E url_given \in BOOLEAN : FetchDataRequest(url_given)

SessionInit ==
  /\ session = EmptySession
  /\ handled = <<>>
  /\ PipelineIdle /\ BoltIdle /\ ReleaseIdIdle /\ SpkIdle /\ ClientIdle

SessionNext ==
  \/ Authenticate
  \/ Logout
  \/ FetchData

SessionSpec == SessionInit /\ [][SessionNext]_vars

(* request j is an authenticate whose two connection tests succeeded *)
Succeeded(j) == handled[j].request = "authenticate" /\ handled[j].status = 200

(* request k is a fetch_data that starts the pipeline *)
Started(k) == handled[k].request = "fetch_data" /\ handled[k].sent # <<>>

(* before request k, some successful authenticate is not followed by a     *)
(* logout                                                                  *)
LoggedIn(k) ==
  \E j \in 1..(k - 1) :
     /\ Succeeded(j)
     /\ \A l \in (j + 1)..(k - 1) : handled[l].request # "logout"

(* C29: a fetch_data starts the pipeline only after a successful           *)
(* authenticate that no logout has followed; without one it answers 401    *)
(* and starts nothing; the session holds xlr_token exactly when it holds   *)
(* ansible_token.                                                          *)
C29_PipelineOnlyWhenAuthenticated ==
  /\ \A k \in 1..Len(handled) :
       /\ Started(k) => LoggedIn(k)
       /\ (handled[k].request = "fetch_data" /\ ~LoggedIn(k)) =>
            handled[k].status = 401 /\ handled[k].sent = <<>>
  /\ (session.xlr_token = <<>>) <=> (session.ansible_token = <<>>)

C29_Witness ==
  /\ Len(handled) = 3
  /\ Succeeded(1)
  /\ handled[2].request = "logout"
  /\ handled[3].request = "fetch_data" /\ handled[3].status = 401

(* a fetch_data of a logged-in session that brings a release train URL *)
PipelineStartedAfterAuthenticate ==
  /\ Len(handled) = 2
  /\ Succeeded(1)
  /\ Started(2)

(* C30: an authenticate that fails leaves the session as it was, and the   *)
(* URLs and tokens a fetch_data builds its clients with are those of one   *)
(* earlier successful authenticate.                                        *)
C30_FailedAuthenticateLeavesSession ==
  /\ \A k \in 1..Len(handled) :
       (handled[k].request = "authenticate" /\ handled[k].status # 200) =>
         handled[k].after = handled[k].before
  /\ \A k \in 1..Len(handled) :
       Started(k) =>
         \E j \in 1..(k - 1) :
            /\ Succeeded(j)
            /\ handled[j].after.xlr_url = <<handled[k].sent[1].xlr_url>>
            /\ handled[j].after.xlr_token = <<handled[k].sent[1].xlr_token>>
            /\ handled[j].after.ansible_url = <<handled[k].sent[1].ansible_url>>
            /\ handled[j].after.ansible_token = <<handled[k].sent[1].ansible_token>>

(* What holds of a failing authenticate: the stored tokens are untouched.  *)
FailedAuthenticateKeepsTokens ==
  \A k \in 1..Len(handled) :
     (handled[k].request = "authenticate" /\ handled[k].status # 200) =>
       /\ handled[k].after.xlr_token = handled[k].before.xlr_token
       /\ handled[k].after.ansible_token = handled[k].before.ansible_token

====
